---- MODULE Spec2Model ----
(***************************************************************************)
(* Kashvi's asynchronous execution substrate: the job queue (pkg/queue),   *)
(* the worker pool (pkg/workerpool), the task scheduler (pkg/schedule) and *)
(* the MongoDB log sink (pkg/logger).  The subsystems share no state, so   *)
(* each has its own specification over its own variables:                  *)
(*   SpecQueue, SpecPool, SpecSched, SpecLog, and SpecRedis for the        *)
(*   durable queue driver with delayed dispatch.                           *)
(***************************************************************************)
EXTENDS Integers, Sequences, FiniteSets, TLC

VARIABLES
    \* ---- job queue (Manager, MemoryDriver) ----
    maxRetry,     \* Manager.maxRetry
    driverQ,      \* MemoryDriver.ch: the envelopes stored in the driver, oldest first
    nextJob,      \* number of envelopes pushed so far (job ids are 1..nextJob)
    kindOf,       \* per job: what its envelope decodes to ("none" before the push)
    wpc,          \* position of each queue worker in Manager.work
    cur,          \* the job a worker holds (0: none)
    attempt,      \* runWithRetry's loop variable
    lastErr,      \* runWithRetry's lastErr ("nil" before the first failure)
    sleepLeft,    \* seconds left of the worker's time.Sleep
    slept,        \* seconds the worker's last time.Sleep has lasted
    hist,         \* per job: the outcomes of its Handle invocations, in order
    failed,       \* Manager.failed, the in-memory dead-letter list
    cancelled,    \* ctx of StartWorkers is done
    crashed,      \* an unrecovered panic has terminated the process
    chCap,        \* cap(d.ch) of a MemoryDriver
    driver,       \* Manager.driver: "memory" (the default) or "swapped" (after SetDriver)
    swapQ,        \* the channel of the driver SetDriver put in place, oldest first
    wdrv,         \* per worker: the driver it read for the Pop it is in ("none" outside)
    budget,       \* per worker: m.maxRetry when it entered runWithRetry (0 outside)
    \* ---- worker pool (workerpool.Pool) ----
    poolSize,     \* the argument of New
    tasks,        \* Pool.tasks: the buffered tasks, oldest first
    tasksClosed,  \* close(p.tasks) has run
    closeCh,      \* Pool.closeCh is closed
    once,         \* Pool.once: "fresh", "running" (its function is executing), "done"
    pwpc,         \* position of each pool worker in Pool.worker
    prun,         \* the task a pool worker is running (0: none)
    nextTask,     \* number of Submit/SubmitWait calls made (task ids are 1..nextTask)
    op,           \* the latest call made: "Submit" or "SubmitWait"
    res,          \* per task: what its call returned ("calling" while in the call)
    exec,         \* per task: "no", "running", "done" (returned), "panicked"
    runs,         \* per task: how many times a worker started it
    afterPanic,   \* per task: some task had panicked when its call was made
    cpc,          \* position of each calling goroutine
    ctask,        \* the task of the call a goroutine is in (0: none)
    sendq,        \* goroutines parked in SubmitWait's select (tasks.sendq), oldest first
    spc,          \* position of each goroutine that calls Shutdown
    \* ---- task scheduler (pkg/schedule) ----
    cfg,          \* per entry: interval, noOverlap, and whether hooks are set
    now,          \* seconds since Start: the time of the latest tick
    lastRun,      \* entry.lastRun (ZeroTime before the first dispatch)
    running,      \* entry.running
    units,        \* per entry and phase: launched goroutines in that phase
    skips,        \* per entry: "skipping overlapping task" warnings logged
    launched,     \* per entry: goroutines launched by dispatch so far
    afters,       \* per entry: invocations of the after hook so far
    panics,       \* per entry: panics raised by the before hook or the task
    schedStopped, \* the run loop has returned (ctx done)
    schedCrashed, \* an unrecovered panic has terminated the process
    \* ---- log sink (pkg/logger MongoHandler) ----
    logQ,         \* h.queue: buffered documents, oldest first
    nextRec,      \* Handle calls made so far; records are numbered from 1
    fate,         \* per record: "none", "queued" or "dropped"
    herr,         \* what the latest Handle call returned
    batch,        \* the drainer's batch
    inserts,      \* InsertMany calls issued, in order
    dpc,          \* position of the drainer goroutine
    final,        \* the drainer's current flush is the one before it returns
    done,         \* h.done is closed
    lpc,          \* position of each goroutine that calls Close
    closeMark,    \* Handle calls made before Close was first called (-1: not yet)
    disconnected, \* client.Disconnect has been called
    logCrashed,   \* an unrecovered panic has terminated the process
    \* ---- durable driver (RedisDriver) and DispatchAfter ----
    rnow,         \* the clock, in seconds
    nProm,        \* promoter goroutines started (one per NewRedisDriver)
    zset,         \* the delayed sorted set: members with their scores
    rlist,        \* the primary list, oldest push first
    rnext,        \* envelopes created so far (ids are 1..rnext)
    rsrc,         \* per envelope: the call that created it ("none" before)
    timers,       \* goroutines of DispatchAfter asleep in time.Sleep
    ppc,          \* position of each promoter goroutine
    ppipe,        \* per promoter: commands of its pipeline the server has yet to run
    pushes,       \* per envelope: LPUSH commands the server has run for it
    rpopped,      \* envelopes taken from the primary list by BRPOP
    \* ---- one call of matchCron (pkg/schedule) ----
    cexpr,        \* argument expr, as strings.Fields(expr): fields of characters
    ctime,        \* argument t, as the five components matchCron reads
    cout          \* the value returned ("none" before the call)

qvars == <<maxRetry, driverQ, nextJob, kindOf, wpc, cur, attempt, lastErr, sleepLeft,
           slept, hist, failed, cancelled, crashed, chCap, driver, swapQ, wdrv,
           budget>>

pvars == <<poolSize, tasks, tasksClosed, closeCh, once, pwpc, prun, nextTask,
           op, res, exec, runs, afterPanic, cpc, ctask, sendq, spc>>

svars == <<cfg, now, lastRun, running, units, skips, launched, afters,
           panics, schedStopped, schedCrashed>>

lvars == <<logQ, nextRec, fate, herr, batch, inserts, dpc, final, done, lpc,
           closeMark, disconnected, logCrashed>>

rvars == <<rnow, nProm, zset, rlist, rnext, rsrc, timers, ppc, ppipe, pushes,
           rpopped>>

cvars == <<cexpr, ctime, cout>>

vars == <<qvars, pvars, svars, lvars, rvars, cvars>>

\* What the steps of one subsystem leave alone (the other subsystems stay
\* as constructed: QueueIdle, PoolIdle).
nonQueue == <<pvars, svars, lvars, rvars, cvars>>
nonPool == <<qvars, svars, lvars, rvars, cvars>>
nonSched == <<qvars, pvars, lvars, rvars, cvars>>
nonLog == <<qvars, pvars, svars, rvars, cvars>>
nonRedis == <<qvars, pvars, svars, lvars, cvars>>
nonCron == <<qvars, pvars, svars, lvars, rvars>>

Last(s) == s[Len(s)]

(***************************************************************************)
(*                              JOB QUEUE                                  *)
(***************************************************************************)

\* Bounds of the queue model.
NumWorkers == 2       \* n of StartWorkers(ctx, n)
MaxJobs == 2          \* envelopes pushed in one behaviour
MaxRetryBound == 2    \* largest max_retry explored
memoryQueueSize == 2  \* buffer of MemoryDriver.ch (1000 in NewMemoryDriver), scaled down

Workers == 1..NumWorkers
Jobs == 1..MaxJobs
Errs == {"e1", "e2"}
JobTypes == {"registered", "unregistered"}

\* The budgets SetMaxRetry is documented for (spec: integer >= 1).
RetryBudgets == 1..MaxRetryBound

\* defaultManager as the package builds it, no worker past the top of its loop.
InitManager ==
    /\ maxRetry \in RetryBudgets
    /\ driverQ = <<>>
    /\ nextJob = 0
    /\ kindOf = [j \in Jobs |-> "none"]
    /\ wpc = [w \in Workers |-> "loop"]
    /\ cur = [w \in Workers |-> 0]
    /\ attempt = [w \in Workers |-> 0]
    /\ lastErr = [w \in Workers |-> "nil"]
    /\ sleepLeft = [w \in Workers |-> 0]
    /\ slept = [w \in Workers |-> 0]
    /\ hist = [j \in Jobs |-> <<>>]
    /\ failed = <<>>
    /\ cancelled = FALSE
    /\ crashed = FALSE
    /\ driver = "memory"
    /\ swapQ = <<>>
    /\ wdrv = [w \in Workers |-> "none"]
    /\ budget = [w \in Workers |-> 0]

\* NewMemoryDriver: make(chan []byte, 1000), scaled to memoryQueueSize.
InitQueue == InitManager /\ chCap = memoryQueueSize

\* A send on the buffered channel puts the value behind those already buffered.
EnqueueFront(q, env) == <<env>> \o q
Enqueue(q, env) == Append(q, env)

\* MemoryDriver.Push on the driver m.driver points at: a blocking send on
\* the buffered channel.
DriverPush(env) ==
    IF driver = "memory"
    THEN /\ Len(driverQ) < chCap
         /\ driverQ' = Enqueue(driverQ, env)
         /\ UNCHANGED swapQ
    ELSE /\ Len(swapQ) < chCap
         /\ swapQ' = Enqueue(swapQ, env)
         /\ UNCHANGED driverQ

\* Dispatch -> Manager.push: marshal the job into an envelope and push it.
\* push does not consult the registry, so the job's type may be unregistered.
Dispatch(kind) ==
    /\ ~crashed
    /\ nextJob < MaxJobs
    /\ nextJob' = nextJob + 1
    /\ kindOf' = [kindOf EXCEPT ![nextJob + 1] = kind]
    /\ DriverPush([id |-> nextJob + 1, kind |-> kind])
    /\ UNCHANGED <<maxRetry, wpc, cur, attempt, lastErr, sleepLeft, slept,
                   hist, failed, cancelled, crashed>>
    /\ UNCHANGED <<driver, wdrv, chCap, budget>>
    /\ UNCHANGED nonQueue

\* Driver.Push called with bytes that are no envelope (Push is exported).
PushRaw ==
    /\ ~crashed
    /\ nextJob < MaxJobs
    /\ nextJob' = nextJob + 1
    /\ kindOf' = [kindOf EXCEPT ![nextJob + 1] = "malformed"]
    /\ DriverPush([id |-> nextJob + 1, kind |-> "malformed"])
    /\ UNCHANGED <<maxRetry, wpc, cur, attempt, lastErr, sleepLeft, slept,
                   hist, failed, cancelled, crashed>>
    /\ UNCHANGED <<driver, wdrv, chCap, budget>>
    /\ UNCHANGED nonQueue

\* The cancel function of the context handed to StartWorkers.
Cancel ==
    /\ ~crashed
    /\ ~cancelled
    /\ cancelled' = TRUE
    /\ UNCHANGED <<maxRetry, driverQ, nextJob, kindOf, wpc, cur, attempt, lastErr,
                   sleepLeft, slept, hist, failed, crashed>>
    /\ UNCHANGED <<driver, swapQ, wdrv, chCap, budget>>
    /\ UNCHANGED nonQueue

\* Workers run the same code and hold no job between jobs: of several
\* workers at the same position of the loop, the lowest-numbered moves.
FirstAt(w, pos) ==
    /\ wpc[w] = pos
    /\ \A v \in Workers : v < w => ~(wpc[v] = pos /\ wdrv[v] = wdrv[w])

\* Manager.work, top of the loop: select { case <-ctx.Done(): return; default: },
\* and in the default case d := m.driver, the driver this round pops from.
WorkLoop(w) ==
    /\ ~crashed
    /\ FirstAt(w, "loop")
    /\ wpc' = [wpc EXCEPT ![w] = IF cancelled THEN "exited" ELSE "pop"]
    /\ wdrv' = [wdrv EXCEPT ![w] = IF cancelled THEN "none" ELSE driver]
    /\ UNCHANGED <<maxRetry, driverQ, nextJob, kindOf, cur, attempt, lastErr,
                   sleepLeft, slept, hist, failed, cancelled, crashed>>
    /\ UNCHANGED <<driver, swapQ, chCap, budget>>
    /\ UNCHANGED nonQueue

\* work after d.Pop returned an error: if ctx.Err() != nil { return }.
CancelledPopRetries == "errwait"
CancelledPop == "exited"

\* MemoryDriver.Pop returns ctx.Err(): work sees ctx.Err() != nil and returns.
PopCancelled(w) ==
    /\ ~crashed
    /\ FirstAt(w, "pop")
    /\ cancelled
    /\ wpc' = [wpc EXCEPT ![w] = CancelledPop]
    /\ UNCHANGED <<maxRetry, driverQ, nextJob, kindOf, cur, attempt, lastErr,
                   sleepLeft, slept, hist, failed, cancelled, crashed>>
    /\ wdrv' = [wdrv EXCEPT ![w] = "none"]
    /\ UNCHANGED <<driver, swapQ, chCap, budget>>
    /\ UNCHANGED nonQueue

\* runWithRetry's loop condition, attempt <= m.maxRetry, read when it is evaluated.
NextStepOffByOne(a) == IF a <= maxRetry + 1 THEN "handle" ELSE "persist"
NextStep(a) == IF a <= maxRetry THEN "handle" ELSE "persist"

\* MemoryDriver.Pop, case data := <-d.ch: the receive takes the envelope out of
\* the channel.
AfterPopKeeps(q) == q
AfterPop(q) == Tail(q)

\* Manager.process: the envelope decodes and its type is in the registry.
RunnableAny(kind) == TRUE
Runnable(kind) == kind = "registered"

\* The channel of the driver worker w read at the top of its loop.
PopQ(w) == IF wdrv[w] = "memory" THEN driverQ ELSE swapQ

\* MemoryDriver.Pop receives an envelope; Manager.process decodes it, looks the
\* type up and, for a registered type, enters runWithRetry with attempt = 1.
PopProcess(w) ==
    /\ ~crashed
    /\ FirstAt(w, "pop")
    /\ PopQ(w) # <<>>
    /\ IF wdrv[w] = "memory"
       THEN driverQ' = AfterPop(driverQ) /\ UNCHANGED swapQ
       ELSE swapQ' = AfterPop(swapQ) /\ UNCHANGED driverQ
    /\ wdrv' = [wdrv EXCEPT ![w] = "none"]
    /\ IF Runnable(Head(PopQ(w)).kind)
       THEN /\ cur' = [cur EXCEPT ![w] = Head(PopQ(w)).id]
            /\ attempt' = [attempt EXCEPT ![w] = 1]
            /\ lastErr' = [lastErr EXCEPT ![w] = "nil"]
            /\ budget' = [budget EXCEPT ![w] = maxRetry]
            /\ wpc' = [wpc EXCEPT ![w] = NextStep(1)]
       ELSE \* bad envelope or unregistered type: logged and discarded
            /\ wpc' = [wpc EXCEPT ![w] = "loop"]
            /\ UNCHANGED <<cur, attempt, lastErr, budget>>
    /\ UNCHANGED <<maxRetry, nextJob, kindOf, sleepLeft, slept, hist, failed,
                   cancelled, crashed>>
    /\ UNCHANGED <<driver, chCap>>
    /\ UNCHANGED nonQueue

\* The backoff after failed attempt k: time.Duration(attempt) * time.Second.
BackoffWrong(k) == 1
Backoff(k) == k

\* runWithRetry returns: its job and its locals are gone.
Return(w) ==
    /\ cur' = [cur EXCEPT ![w] = 0]
    /\ attempt' = [attempt EXCEPT ![w] = 0]
    /\ lastErr' = [lastErr EXCEPT ![w] = "nil"]
    /\ sleepLeft' = [sleepLeft EXCEPT ![w] = 0]
    /\ slept' = [slept EXCEPT ![w] = 0]
    /\ budget' = [budget EXCEPT ![w] = 0]

\* job.Handle() returns nil: "job processed", runWithRetry returns.
HandleOk(w) ==
    /\ ~crashed
    /\ wpc[w] = "handle"
    /\ hist' = [hist EXCEPT ![cur[w]] = Append(@, "ok")]
    /\ wpc' = [wpc EXCEPT ![w] = "loop"]
    /\ Return(w)
    /\ UNCHANGED <<maxRetry, driverQ, nextJob, kindOf, failed, cancelled, crashed>>
    /\ UNCHANGED <<driver, swapQ, wdrv, chCap>>
    /\ UNCHANGED nonQueue

\* job.Handle() returns err: lastErr = err, then time.Sleep(attempt seconds).
HandleErr(w, e) ==
    /\ ~crashed
    /\ wpc[w] = "handle"
    /\ hist' = [hist EXCEPT ![cur[w]] = Append(@, e)]
    /\ lastErr' = [lastErr EXCEPT ![w] = e]
    /\ sleepLeft' = [sleepLeft EXCEPT ![w] = Backoff(attempt[w])]
    /\ slept' = [slept EXCEPT ![w] = 0]
    /\ wpc' = [wpc EXCEPT ![w] = "backoff"]
    /\ UNCHANGED <<maxRetry, driverQ, nextJob, kindOf, cur, attempt, failed,
                   cancelled, crashed>>
    /\ UNCHANGED <<driver, swapQ, wdrv, chCap, budget>>
    /\ UNCHANGED nonQueue

\* job.Handle() panics.  Neither runWithRetry, process nor work defers a
\* recover, so the panic leaves the worker goroutine and ends the process.
HandlePanic(w) ==
    /\ ~crashed
    /\ wpc[w] = "handle"
    /\ hist' = [hist EXCEPT ![cur[w]] = Append(@, "panic")]
    /\ crashed' = TRUE
    /\ UNCHANGED <<maxRetry, driverQ, nextJob, kindOf, wpc, cur, attempt, lastErr,
                   sleepLeft, slept, failed, cancelled>>
    /\ UNCHANGED <<driver, swapQ, wdrv, chCap, budget>>
    /\ UNCHANGED nonQueue

\* One second passes for every sleeping worker.
Second ==
    /\ ~crashed
    /\ \E w \in Workers : wpc[w] = "backoff" /\ sleepLeft[w] > 0
    /\ sleepLeft' = [w \in Workers |->
                        IF wpc[w] = "backoff" /\ sleepLeft[w] > 0
                        THEN sleepLeft[w] - 1 ELSE sleepLeft[w]]
    /\ slept' = [w \in Workers |->
                        IF wpc[w] = "backoff" /\ sleepLeft[w] > 0
                        THEN slept[w] + 1 ELSE slept[w]]
    /\ UNCHANGED <<maxRetry, driverQ, nextJob, kindOf, wpc, cur, attempt, lastErr,
                   hist, failed, cancelled, crashed>>
    /\ UNCHANGED <<driver, swapQ, wdrv, chCap, budget>>
    /\ UNCHANGED nonQueue

\* time.Sleep returns; continue: attempt++ and the loop condition.
WakeUp(w) ==
    /\ ~crashed
    /\ wpc[w] = "backoff"
    /\ sleepLeft[w] = 0
    /\ attempt' = [attempt EXCEPT ![w] = @ + 1]
    /\ wpc' = [wpc EXCEPT ![w] = NextStep(attempt[w] + 1)]
    /\ UNCHANGED <<maxRetry, driverQ, nextJob, kindOf, cur, lastErr, sleepLeft,
                   slept, hist, failed, cancelled, crashed>>
    /\ UNCHANGED <<driver, swapQ, wdrv, chCap, budget>>
    /\ UNCHANGED nonQueue

\* The record persistFailed appends to m.failed (arguments of the call in
\* runWithRetry: job, lastErr, m.maxRetry).
FailedRecordFirstErr(w) ==
    [job |-> cur[w], err |-> hist[cur[w]][1], attempts |-> maxRetry]
FailedRecord(w) ==
    [job |-> cur[w], err |-> lastErr[w], attempts |-> maxRetry]

\* All retries exhausted: Manager.persistFailed, then runWithRetry returns.
PersistFailed(w) ==
    /\ ~crashed
    /\ wpc[w] = "persist"
    /\ failed' = Append(failed, FailedRecord(w))
    /\ wpc' = [wpc EXCEPT ![w] = "loop"]
    /\ Return(w)
    /\ UNCHANGED <<maxRetry, driverQ, nextJob, kindOf, hist, cancelled, crashed>>
    /\ UNCHANGED <<driver, swapQ, wdrv, chCap>>
    /\ UNCHANGED nonQueue

NextQueue ==
    \/ \E k \in JobTypes : Dispatch(k)
    \/ PushRaw
    \/ Cancel
    \/ Second
    \/ \E w \in Workers :
          \/ WorkLoop(w)
          \/ PopCancelled(w)
          \/ PopProcess(w)
          \/ HandleOk(w)
          \/ \E e \in Errs : HandleErr(w, e)
          \/ HandlePanic(w)
          \/ WakeUp(w)
          \/ PersistFailed(w)

\* SetDriver(d): under the write lock, m.driver = d.  The driver put in place
\* is a fresh one; the model swaps once.
SetDriver ==
    /\ ~crashed
    /\ driver = "memory"
    /\ driver' = "swapped"
    /\ UNCHANGED <<maxRetry, driverQ, nextJob, kindOf, wpc, cur, attempt, lastErr,
                   sleepLeft, slept, hist, failed, cancelled, crashed>>
    /\ UNCHANGED <<swapQ, wdrv, chCap, budget>>
    /\ UNCHANGED nonQueue

\* d.Pop returns an error while ctx.Err() is nil: work calls
\* time.Sleep(500 * time.Millisecond).  MemoryDriver.Pop has no such return;
\* a driver put in place by SetDriver may have.
PopError(w) ==
    /\ ~crashed
    /\ FirstAt(w, "pop")
    /\ wdrv[w] = "swapped"
    /\ ~cancelled
    /\ wpc' = [wpc EXCEPT ![w] = "errwait"]
    /\ wdrv' = [wdrv EXCEPT ![w] = "none"]
    /\ UNCHANGED <<maxRetry, driverQ, nextJob, kindOf, cur, attempt, lastErr,
                   sleepLeft, slept, hist, failed, cancelled, crashed>>
    /\ UNCHANGED <<driver, swapQ, chCap, budget>>
    /\ UNCHANGED nonQueue

\* The 500 ms sleep returns; continue: back to the top of the loop.
ErrWake(w) ==
    /\ ~crashed
    /\ FirstAt(w, "errwait")
    /\ wpc' = [wpc EXCEPT ![w] = "loop"]
    /\ UNCHANGED <<maxRetry, driverQ, nextJob, kindOf, cur, attempt, lastErr,
                   sleepLeft, slept, hist, failed, cancelled, crashed>>
    /\ UNCHANGED <<driver, swapQ, wdrv, chCap, budget>>
    /\ UNCHANGED nonQueue

\* The queue with a live driver swap.
NextSwap ==
    \/ NextQueue
    \/ SetDriver
    \/ \E w \in Workers : PopError(w) \/ ErrWake(w)

\* What one worker goroutine can do next.
WorkerStep(w) ==
    \/ WorkLoop(w)
    \/ PopCancelled(w)
    \/ PopProcess(w)
    \/ PopError(w)
    \/ ErrWake(w)
    \/ HandleOk(w)
    \/ \E e \in Errs : HandleErr(w, e)
    \/ HandlePanic(w)
    \/ WakeUp(w)
    \/ PersistFailed(w)

\* The integers passed to SetMaxRetry.
RetrySettings == -1..MaxRetryBound

\* SetMaxRetry(n): defaultManager.maxRetry = n, a plain store made without
\* the lock; a worker in runWithRetry reads the field at each evaluation of
\* the loop condition and in the call of persistFailed, and sees the value
\* before or after the store.
SetMaxRetry(n) ==
    /\ ~crashed
    /\ n # maxRetry
    /\ maxRetry' = n
    /\ UNCHANGED <<driverQ, nextJob, kindOf, wpc, cur, attempt, lastErr,
                   sleepLeft, slept, hist, failed, cancelled, crashed>>
    /\ UNCHANGED <<driver, swapQ, wdrv, chCap, budget>>
    /\ UNCHANGED nonQueue

\* The queue with SetMaxRetry called at any moment.
NextRetry ==
    \/ NextQueue
    \/ \E n \in RetrySettings : SetMaxRetry(n)

(***************************************************************************)
(*                        Claims about the job queue                       *)
(***************************************************************************)

Popped(j) == j <= nextJob /\ \A i \in 1..Len(driverQ) : driverQ[i].id # j
HeldBy(j) == {w \in Workers : cur[w] = j}
Records(j) == {i \in 1..Len(failed) : failed[i].job = j}
Succeeded(j) == hist[j] # <<>> /\ Last(hist[j]) = "ok"
AllFailed(j) == \A i \in 1..Len(hist[j]) : hist[j][i] \in Errs
\* runWithRetry has returned for job j.
Ended(j) == kindOf[j] = "registered" /\ Popped(j) /\ HeldBy(j) = {}

\* C1: with max_retry = m >= 1 fixed, a popped job of a registered type has
\* Handle invoked at most m times, never again after a success, and when
\* runWithRetry has returned the job is in exactly one of two outcomes:
\* success on attempt k <= m after k-1 failures with no dead-letter record,
\* or dead-lettered after exactly m failed attempts.
C1_RetryOutcome ==
    \A j \in Jobs :
        /\ Len(hist[j]) <= maxRetry
        /\ \A i \in 1..(Len(hist[j]) - 1) : hist[j][i] \in Errs
        /\ Succeeded(j) => Records(j) = {}
        /\ Records(j) # {} => Len(hist[j]) = maxRetry /\ AllFailed(j)
        /\ Ended(j) => (Succeeded(j) /\ Records(j) = {})
                        \/ (~Succeeded(j) /\ Records(j) # {})

\* One job succeeded on its second attempt, another was dead-lettered.
C1_Witness ==
    \E j, k \in Jobs :
        /\ Ended(j) /\ Succeeded(j) /\ Len(hist[j]) = 2
        /\ Ended(k) /\ Records(k) # {} /\ Len(hist[k]) = maxRetry

\* C6: a job whose retry budget is exhausted has exactly one record in the
\* in-memory dead-letter list, with attempts = max_retry (the number of
\* Handle invocations made) and the error of the final attempt; a job that
\* succeeded has none, and no other job has a record.
C6_DeadLetterRecord ==
    \A j \in Jobs :
        /\ (Ended(j) /\ ~Succeeded(j)) =>
              /\ Cardinality(Records(j)) = 1
              /\ \A i \in Records(j) :
                    /\ failed[i].attempts = maxRetry
                    /\ failed[i].attempts = Len(hist[j])
                    /\ failed[i].err = Last(hist[j])
        /\ (~Ended(j) \/ Succeeded(j)) => Records(j) = {}

\* A job failed twice with different errors and has been dead-lettered.
C6_Witness ==
    \E j \in Jobs :
        /\ Ended(j) /\ Len(hist[j]) = 2 /\ hist[j][1] # hist[j][2]
        /\ Cardinality(Records(j)) = 1

\* C7: linear backoff on the owning worker.  A worker enters its backoff
\* right after failed attempt k of the job it holds; it keeps that job and
\* leaves the backoff only after k seconds of sleep, and its next step is
\* attempt k+1 when k < max_retry and the dead-letter write when
\* k = max_retry.
C7_LinearBackoff ==
    [][\A w \in Workers :
          /\ (wpc[w] # "backoff" /\ wpc'[w] = "backoff") =>
                /\ slept'[w] = 0
                /\ cur'[w] = cur[w] /\ cur[w] # 0
                /\ Len(hist'[cur[w]]) = attempt'[w]
                /\ Last(hist'[cur[w]]) \in Errs
          /\ wpc[w] = "backoff" =>
                /\ cur'[w] = cur[w]
                /\ driverQ' = driverQ \/ wpc'[w] = "backoff"
                /\ wpc'[w] # "backoff" =>
                      /\ slept[w] = attempt[w]
                      /\ attempt'[w] = attempt[w] + 1
                      /\ wpc'[w] = IF attempt[w] < maxRetry
                                   THEN "handle" ELSE "persist"]_vars

\* A worker is about to write the dead-letter record after the final
\* backoff of max_retry seconds, with a budget larger than 1.
C7_Witness ==
    \E w \in Workers :
        /\ wpc[w] = "persist" /\ slept[w] = maxRetry /\ maxRetry > 1

\* C8: a job whose Handle panics does not terminate its worker: the panic
\* is contained, the attempt counts as a failure followed by the backoff,
\* and the process keeps running.
C8_PanicContained ==
    \A w \in Workers :
        (cur[w] # 0 /\ hist[cur[w]] # <<>> /\ Last(hist[cur[w]]) = "panic")
            => (~crashed /\ wpc[w] = "backoff")

InDriver(j) == {i \in 1..Len(driverQ) : driverQ[i].id = j}

\* C13: a dispatched job is in at most one place: in the driver (once), held
\* by one worker, or in the dead-letter list.  No two workers hold the same
\* job, and a job with a dead-letter record is held by no worker.
C13_OnePlace ==
    \A j \in Jobs :
        /\ Cardinality(InDriver(j)) <= 1
        /\ Cardinality(HeldBy(j)) <= 1
        /\ ~(InDriver(j) # {} /\ HeldBy(j) # {})
        /\ ~(InDriver(j) # {} /\ Records(j) # {})
        /\ ~(HeldBy(j) # {} /\ Records(j) # {})
        /\ j > nextJob => InDriver(j) = {} /\ HeldBy(j) = {} /\ Records(j) = {}

\* One job is dead-lettered while another is held by a worker in backoff.
C13_Witness ==
    \E j, k \in Jobs :
        /\ Records(j) # {} /\ HeldBy(j) = {}
        /\ \E w \in Workers : cur[w] = k /\ wpc[w] = "backoff"

BadKinds == {"malformed", "unregistered"}

C25_CancelExits ==
    /\ cancelled ~> (crashed \/ \A w \in Workers : wpc[w] = "exited")
    /\ [](\A w \in Workers : wpc[w] = "exited" => cancelled /\ cur[w] = 0)
    /\ [][\A w \in Workers :
            /\ wpc[w] = "exited" => wpc'[w] = "exited"
            /\ (cur[w] # 0 /\ cur'[w] # cur[w]) =>
                  \/ Last(hist'[cur[w]]) = "ok"
                  \/ \E i \in 1..Len(failed') : failed'[i].job = cur[w]
            /\ cur[w] # 0 => wpc'[w] # "exited"
            /\ (wpc[w] = "pop" /\ wpc'[w] = "exited") =>
                  cancelled /\ driverQ' = driverQ /\ swapQ' = swapQ
            /\ (wpc[w] = "pop" /\ wpc'[w] = "errwait") => ~cancelled
            /\ wpc[w] = "errwait" => wpc'[w] \in {"errwait", "loop"}
            /\ (wpc[w] = "loop" /\ cancelled) => wpc'[w] \in {"loop", "exited"}]_vars

\* After cancellation both workers have exited; one of them first took a job
\* through a failed attempt and its backoff to the dead-letter list.
C25_Witness ==
    /\ cancelled /\ ~crashed
    /\ \A w \in Workers : wpc[w] = "exited"
    /\ failed # <<>>

\* The ids of the envelopes in a channel; ids are given in push order.
Ids(q) == {q[i].id : i \in 1..Len(q)}

\* C26: the in-memory driver pops in push order.  Envelopes sit in the channel
\* in push order, and a pop takes the one pushed first, leaves the others in
\* order, and hands that one to the worker when its type is registered; so a
\* push onto an empty channel followed by a pop returns the envelope pushed.
C26_Fifo ==
    /\ [](\A i, k \in 1..Len(driverQ) : i < k => driverQ[i].id < driverQ[k].id)
    /\ [][Len(driverQ') < Len(driverQ) =>
            /\ Ids(driverQ) \ Ids(driverQ') = {Head(driverQ).id}
            /\ \A j \in Ids(driverQ') : Head(driverQ).id < j
            /\ driverQ' = Tail(driverQ)
            /\ Head(driverQ).kind = "registered" =>
                  \E w \in Workers : cur[w] = 0 /\ cur'[w] = Head(driverQ).id]_vars

\* Two jobs were queued together and the first one dispatched has been
\* handled while the second is still in the channel.
C26_Witness ==
    /\ nextJob = 2
    /\ Succeeded(1)
    /\ Len(driverQ) = 1 /\ driverQ[1].id = 2

\* C27: Dispatch returns whatever the channel holds: whenever a job remains
\* to be dispatched, the call can complete its push.
C27_DispatchReturns ==
    (~crashed /\ nextJob < MaxJobs) => ENABLED (\E k \in JobTypes : Dispatch(k))

\* The attempts a job makes when every Handle call fails, for the budget b
\* its retry loop started with.
AttemptsOf(b) == IF b > 0 THEN b ELSE 0

\* C36: a job that is in its retry loop when SetMaxRetry is called makes the
\* attempts of the budget it started with, and the attempts value of a
\* dead-letter record is the number of Handle calls made for its job.
C36_BudgetFixedAtStart ==
    /\ \A w \in Workers :
          /\ cur[w] # 0 => Len(hist[cur[w]]) <= AttemptsOf(budget[w])
          /\ wpc[w] = "persist" => Len(hist[cur[w]]) = AttemptsOf(budget[w])
    /\ \A i \in 1..Len(failed) :
          failed[i].attempts = Len(hist[failed[i].job])

\* C39: whatever integer SetMaxRetry was given, a job reaches the
\* dead-letter list only after at least one Handle call, and every
\* dead-letter record carries the error of a Handle call.
C39_HandleBeforeDeadLetter ==
    /\ \A w \in Workers : wpc[w] = "persist" => hist[cur[w]] # <<>>
    /\ \A i \in 1..Len(failed) :
          /\ hist[failed[i].job] # <<>>
          /\ failed[i].err # "nil"

(***************************************************************************)
(*                              WORKER POOL                                *)
(***************************************************************************)

\* Bounds of the pool model.
MaxPoolSize == 1      \* largest argument of New explored
MaxTasks == 4         \* Submit/SubmitWait calls made in one behaviour

PoolSizes == 0..MaxPoolSize
Tasks == 1..MaxTasks
\* Goroutines that call Submit/SubmitWait, and goroutines that call Shutdown.
\* Goroutines are interchangeable: the idle one of lowest number moves first.
Callers == {1, 2}
Shutters == {1, 2}

\* New: size <= 0 is coerced to 1; that many workers are started.
Cap == IF poolSize <= 0 THEN 1 ELSE poolSize
\* New: make(chan func(), size*2).
TaskBufferWrong == Cap
TaskBufferTriple == 3 * Cap
TaskBuffer == 2 * Cap
PoolWorkers == 1..Cap

InitPool ==
    /\ poolSize \in PoolSizes
    /\ tasks = <<>>
    /\ tasksClosed = FALSE
    /\ closeCh = FALSE
    /\ once = "fresh"
    /\ pwpc = [w \in PoolWorkers |-> "recv"]
    /\ prun = [w \in PoolWorkers |-> 0]
    /\ nextTask = 0
    /\ op = "none"
    /\ res = [t \in Tasks |-> "none"]
    /\ exec = [t \in Tasks |-> "no"]
    /\ runs = [t \in Tasks |-> 0]
    /\ afterPanic = [t \in Tasks |-> FALSE]
    /\ cpc = [c \in Callers |-> "idle"]
    /\ ctask = [c \in Callers |-> 0]
    /\ sendq = <<>>
    /\ spc = [s \in Shutters |-> "idle"]

\* A goroutine makes a call with a fresh task.
NewCall(c, o) ==
    /\ cpc[c] = "idle"
    /\ \A d \in Callers : d < c => cpc[d] # "idle"
    /\ nextTask < MaxTasks
    /\ nextTask' = nextTask + 1
    /\ op' = o
    /\ afterPanic' = [afterPanic EXCEPT ![nextTask + 1] =
                         \E t \in Tasks : exec[t] = "panicked"]

\* Submit's first select: case <-p.closeCh.
PoolIsClosedNever == FALSE
PoolIsClosed == closeCh

\* Submit, first select: return ErrPoolClosed when closeCh is closed.
SubmitCheck(c) ==
    /\ NewCall(c, "Submit")
    /\ IF PoolIsClosed
       THEN /\ res' = [res EXCEPT ![nextTask + 1] = "ErrPoolClosed"]
            /\ UNCHANGED <<cpc, ctask>>
       ELSE /\ res' = [res EXCEPT ![nextTask + 1] = "calling"]
            /\ cpc' = [cpc EXCEPT ![c] = "send"]
            /\ ctask' = [ctask EXCEPT ![c] = nextTask + 1]
    /\ UNCHANGED <<poolSize, tasks, tasksClosed, closeCh, once, pwpc, prun,
                   exec, runs, sendq, spc>>
    /\ UNCHANGED nonPool

\* Submit, second select: case p.tasks <- task / default.  A send on the
\* closed channel panics in the calling goroutine.
SubmitSend(c) ==
    /\ cpc[c] = "send"
    /\ IF tasksClosed
       THEN /\ res' = [res EXCEPT ![ctask[c]] = "panic"]
            /\ UNCHANGED tasks
       ELSE IF Len(tasks) < TaskBuffer
       THEN /\ res' = [res EXCEPT ![ctask[c]] = "nil"]
            /\ tasks' = Append(tasks, ctask[c])
       ELSE /\ res' = [res EXCEPT ![ctask[c]] = "ErrPoolFull"]
            /\ UNCHANGED tasks
    /\ cpc' = [cpc EXCEPT ![c] = "idle"]
    /\ ctask' = [ctask EXCEPT ![c] = 0]
    /\ UNCHANGED <<poolSize, tasksClosed, closeCh, once, pwpc, prun, nextTask,
                   op, exec, runs, afterPanic, sendq, spc>>
    /\ UNCHANGED nonPool

\* SubmitWait's select: the cases that can proceed.  A send on a closed
\* channel proceeds (by panicking); one of the ready cases is chosen at random.
WaitReady == (IF closeCh THEN {"closed"} ELSE {})
             \cup (IF tasksClosed THEN {"sendpanic"}
                   ELSE IF Len(tasks) < TaskBuffer THEN {"send"} ELSE {})

\* SubmitWait: select { case <-p.closeCh: ...; case p.tasks <- task: ... };
\* with no case ready the goroutine parks on both channels.
SubmitWait(c) ==
    /\ NewCall(c, "SubmitWait")
    /\ IF WaitReady = {}
       THEN /\ res' = [res EXCEPT ![nextTask + 1] = "calling"]
            /\ cpc' = [cpc EXCEPT ![c] = "wait"]
            /\ ctask' = [ctask EXCEPT ![c] = nextTask + 1]
            /\ sendq' = Append(sendq, c)
            /\ UNCHANGED tasks
       ELSE /\ \E r \in WaitReady :
                 /\ res' = [res EXCEPT ![nextTask + 1] =
                               CASE r = "closed" -> "ErrPoolClosed"
                                 [] r = "sendpanic" -> "panic"
                                 [] r = "send" -> "nil"]
                 /\ tasks' = IF r = "send" THEN Append(tasks, nextTask + 1)
                             ELSE tasks
            /\ UNCHANGED <<cpc, ctask, sendq>>
    /\ UNCHANGED <<poolSize, tasksClosed, closeCh, once, pwpc, prun, exec,
                   runs, spc>>
    /\ UNCHANGED nonPool

\* A receive takes the oldest value out of the channel's buffer.
ReceivedStays(q) == q
Received(q) == Tail(q)

\* Pool.worker, for task := range p.tasks: receive the oldest task.  With
\* the buffer full and a sender parked, the receive completes that send.
WorkerRecv(w) ==
    /\ pwpc[w] = "recv"
    /\ tasks # <<>>
    /\ pwpc' = [pwpc EXCEPT ![w] = "run"]
    /\ prun' = [prun EXCEPT ![w] = Head(tasks)]
    /\ exec' = [exec EXCEPT ![Head(tasks)] = "running"]
    /\ runs' = [runs EXCEPT ![Head(tasks)] = @ + 1]
    /\ IF sendq # <<>>
       THEN /\ tasks' = Append(Received(tasks), ctask[Head(sendq)])
            /\ sendq' = Tail(sendq)
            /\ res' = [res EXCEPT ![ctask[Head(sendq)]] = "nil"]
            /\ cpc' = [cpc EXCEPT ![Head(sendq)] = "idle"]
            /\ ctask' = [ctask EXCEPT ![Head(sendq)] = 0]
       ELSE /\ tasks' = Received(tasks)
            /\ UNCHANGED <<sendq, res, cpc, ctask>>
    /\ UNCHANGED <<poolSize, tasksClosed, closeCh, once, nextTask, op,
                   afterPanic, spc>>
    /\ UNCHANGED nonPool

\* Where a worker goes when safeRun returns: the deferred recover() swallows
\* a panic, so the range loop goes on either way.
AfterRunDies(outcome) == IF outcome = "panicked" THEN "exited" ELSE "recv"
AfterRun(outcome) == "recv"

\* safeRun(task): the task returns ("done") or panics ("panicked").
WorkerRun(w, outcome) ==
    /\ pwpc[w] = "run"
    /\ exec' = [exec EXCEPT ![prun[w]] = outcome]
    /\ prun' = [prun EXCEPT ![w] = 0]
    /\ pwpc' = [pwpc EXCEPT ![w] = AfterRun(outcome)]
    /\ UNCHANGED <<poolSize, tasks, tasksClosed, closeCh, once, nextTask, op,
                   res, runs, afterPanic, cpc, ctask, sendq, spc>>
    /\ UNCHANGED nonPool

\* The range loop ends when the channel is closed and empty; defer p.wg.Done().
WorkerExit(w) ==
    /\ pwpc[w] = "recv"
    /\ tasks = <<>>
    /\ tasksClosed
    /\ pwpc' = [pwpc EXCEPT ![w] = "exited"]
    /\ UNCHANGED <<poolSize, tasks, tasksClosed, closeCh, once, prun, nextTask,
                   op, res, exec, runs, afterPanic, cpc, ctask, sendq, spc>>
    /\ UNCHANGED nonPool

\* Shutdown: p.once.Do.  The first caller runs the function and starts with
\* close(p.closeCh), which wakes every goroutine parked in SubmitWait with
\* ErrPoolClosed; a caller that finds the function running waits for it; a
\* caller that finds it done returns.
ShutdownCall(s) ==
    /\ spc[s] = "idle"
    /\ \A r \in Shutters : r < s => spc[r] # "idle"
    /\ IF once = "fresh"
       THEN /\ once' = "running"
            /\ closeCh' = TRUE
            /\ spc' = [spc EXCEPT ![s] = "closeTasks"]
            /\ res' = [t \in Tasks |->
                          IF \E i \in 1..Len(sendq) : ctask[sendq[i]] = t
                          THEN "ErrPoolClosed" ELSE res[t]]
            /\ cpc' = [c \in Callers |->
                          IF cpc[c] = "wait" THEN "idle" ELSE cpc[c]]
            /\ ctask' = [c \in Callers |->
                          IF cpc[c] = "wait" THEN 0 ELSE ctask[c]]
            /\ sendq' = <<>>
       ELSE /\ spc' = [spc EXCEPT ![s] =
                          IF once = "running" THEN "blocked" ELSE "returned"]
            /\ UNCHANGED <<once, closeCh, res, cpc, ctask, sendq>>
    /\ UNCHANGED <<poolSize, tasks, tasksClosed, pwpc, prun, nextTask, op,
                   exec, runs, afterPanic>>
    /\ UNCHANGED nonPool

\* Shutdown: close(p.tasks).
ShutdownCloseTasks(s) ==
    /\ spc[s] = "closeTasks"
    /\ tasksClosed' = TRUE
    /\ spc' = [spc EXCEPT ![s] = "wait"]
    /\ UNCHANGED <<poolSize, tasks, closeCh, once, pwpc, prun, nextTask, op,
                   res, exec, runs, afterPanic, cpc, ctask, sendq>>
    /\ UNCHANGED nonPool

\* p.wg.Wait() returns when every worker has called wg.Done().
WgDoneNoWait == TRUE
WgDone == \A w \in PoolWorkers : pwpc[w] = "exited"

\* Shutdown: p.wg.Wait() returns, the once function ends, Shutdown returns.
ShutdownWait(s) ==
    /\ spc[s] = "wait"
    /\ WgDone
    /\ once' = "done"
    /\ spc' = [spc EXCEPT ![s] = "returned"]
    /\ UNCHANGED <<poolSize, tasks, tasksClosed, closeCh, pwpc, prun,
                   nextTask, op, res, exec, runs, afterPanic, cpc, ctask, sendq>>
    /\ UNCHANGED nonPool

\* A Shutdown that waited in once.Do returns when the function has ended.
ShutdownUnblock(s) ==
    /\ spc[s] = "blocked"
    /\ once = "done"
    /\ spc' = [spc EXCEPT ![s] = "returned"]
    /\ UNCHANGED <<poolSize, tasks, tasksClosed, closeCh, once, pwpc, prun,
                   nextTask, op, res, exec, runs, afterPanic, cpc, ctask, sendq>>
    /\ UNCHANGED nonPool

NextPool ==
    \/ \E c \in Callers :
          \/ SubmitCheck(c)
          \/ SubmitSend(c)
          \/ SubmitWait(c)
    \/ \E w \in PoolWorkers :
          \/ WorkerRecv(w)
          \/ \E o \in {"done", "panicked"} : WorkerRun(w, o)
          \/ WorkerExit(w)
    \/ \E s \in Shutters :
          \/ ShutdownCall(s)
          \/ ShutdownCloseTasks(s)
          \/ ShutdownWait(s)
          \/ ShutdownUnblock(s)

\* What one pool worker goroutine can do next.
PoolWorkerStep(w) ==
    /\ w \in PoolWorkers
    /\ \/ WorkerRecv(w)
       \/ \E o \in {"done", "panicked"} : WorkerRun(w, o)
       \/ WorkerExit(w)

(***************************************************************************)
(*                       Claims about the worker pool                      *)
(***************************************************************************)

InBuffer(t) == \E i \in 1..Len(tasks) : tasks[i] = t
Accepted(t) == res[t] = "nil"
Completed(t) == exec[t] \in {"done", "panicked"}

\* C2: Submit never blocks.  While the task channel is open, a Submit that
\* has passed its closed-check always has a step to take; that step returns
\* ErrPoolFull and leaves the channel as it is when the channel holds
\* 2 x capacity tasks, and otherwise returns nil with the task appended.  A
\* task rejected with ErrPoolFull is never queued and never executed.
C2_SubmitNeverBlocks ==
    /\ [](\A c \in Callers : cpc[c] = "send" => ENABLED SubmitSend(c))
    /\ [](\A t \in Tasks : res[t] = "ErrPoolFull" =>
              ~InBuffer(t) /\ runs[t] = 0 /\ exec[t] = "no")
    /\ [][\A c \in Callers :
            (cpc[c] = "send" /\ cpc'[c] # "send" /\ ~tasksClosed) =>
                IF Len(tasks) = 2 * Cap
                THEN res'[ctask[c]] = "ErrPoolFull" /\ tasks' = tasks
                ELSE res'[ctask[c]] = "nil"
                     /\ tasks' = Append(tasks, ctask[c])]_vars

\* Every worker is busy, the channel holds 2 x capacity tasks, the pool is
\* open and a Submit has just been rejected with ErrPoolFull.
C2_Witness ==
    /\ ~closeCh
    /\ Len(tasks) = 2 * Cap
    /\ \A w \in PoolWorkers : pwpc[w] = "run"
    /\ \E t \in Tasks : res[t] = "ErrPoolFull" /\ t = nextTask

\* C5: when a Shutdown call has returned, every accepted task has run to
\* completion, the task channel is empty, every worker has exited and no
\* worker is running a task body.
C5_ShutdownDrains ==
    (\E s \in Shutters : spc[s] = "returned") =>
        /\ \A t \in Tasks : Accepted(t) => Completed(t) /\ runs[t] = 1
        /\ tasks = <<>>
        /\ \A w \in PoolWorkers : pwpc[w] = "exited" /\ prun[w] = 0
        /\ \A t \in Tasks : exec[t] # "running"

\* Both Shutdown calls have returned, after at least three accepted tasks
\* were run.
C5_Witness ==
    /\ \A s \in Shutters : spc[s] = "returned"
    /\ Cardinality({t \in Tasks : Accepted(t) /\ Completed(t)}) >= 3

\* C9: a task that panics inside the pool does not terminate its worker:
\* until Shutdown closes the task channel every one of the capacity workers
\* is alive (receiving or running), the caller of the panicking task keeps
\* the nil it was given, and a worker that is not running a task takes the
\* next queued task.
C9_PanicKeepsWorker ==
    /\ ~tasksClosed =>
          /\ Cardinality({w \in PoolWorkers : pwpc[w] \in {"recv", "run"}}) = Cap
          /\ \A w \in PoolWorkers :
                (pwpc[w] = "recv" /\ tasks # <<>>) => ENABLED WorkerRecv(w)
    /\ \A t \in Tasks : exec[t] = "panicked" => res[t] = "nil"

\* A task panicked; a task submitted after that panic has been executed,
\* and the pool is still open with all its workers.
C9_Witness ==
    /\ ~closeCh
    /\ \E t, u \in Tasks :
          /\ exec[t] = "panicked"
          /\ afterPanic[u] /\ exec[u] = "done"

\* C10: a Submit called once Shutdown has closed the pool returns
\* ErrPoolClosed at once and leaves the channel alone; a task answered with
\* ErrPoolClosed is never queued and never executed.
C10_SubmitAfterShutdown ==
    /\ [](\A t \in Tasks : res[t] = "ErrPoolClosed" =>
              ~InBuffer(t) /\ runs[t] = 0 /\ exec[t] = "no")
    /\ [][(closeCh /\ nextTask' = nextTask + 1
             /\ op' = "Submit") =>
                /\ res'[nextTask + 1] = "ErrPoolClosed"
                /\ tasks' = tasks
                /\ cpc' = cpc]_vars

\* Shutdown has returned and a later Submit got ErrPoolClosed.
C10_Witness ==
    /\ \E s \in Shutters : spc[s] = "returned"
    /\ op = "Submit" /\ nextTask > 0 /\ res[nextTask] = "ErrPoolClosed"

\* C11: a SubmitWait called after a Shutdown call has returned returns
\* ErrPoolClosed, and its task is neither queued nor parked for sending.
C11_SubmitWaitAfterShutdown ==
    [][((\E s \in Shutters : spc[s] = "returned")
          /\ nextTask' = nextTask + 1 /\ op' = "SubmitWait") =>
             /\ res'[nextTask + 1] = "ErrPoolClosed"
             /\ tasks' = tasks
             /\ sendq' = sendq]_vars

\* C12: with c = size when size > 0 and c = 1 otherwise, the pool has
\* exactly c workers, at most c task bodies are executing, and the task
\* channel holds at most 2 x c tasks.
C12_PoolBounds ==
    LET c == IF poolSize > 0 THEN poolSize ELSE 1 IN
        /\ Cardinality(DOMAIN pwpc) = c
        /\ Cardinality({t \in Tasks : exec[t] = "running"}) <= c
        /\ Cardinality({w \in DOMAIN pwpc : pwpc[w] = "run"}) <= c
        /\ Len(tasks) <= 2 * c

\* A pool built with New(0): its one worker is running a task body and the
\* channel holds two tasks; a further Submit has been turned away.
C12_Witness ==
    /\ poolSize = 0
    /\ \A w \in DOMAIN pwpc : pwpc[w] = "run"
    /\ Len(tasks) = 2
    /\ nextTask = 4 /\ res[4] = "ErrPoolFull"

\* C31: a task whose Submit or SubmitWait returned nil is executed exactly
\* once: it is started at most once, only accepted tasks are started, and
\* under fair scheduling of the workers the pool comes again and again to
\* a state in which every accepted task has been completed.
C31_AcceptedRunsOnce ==
    /\ [](\A t \in Tasks : runs[t] <= 1 /\ (runs[t] = 1 => Accepted(t)))
    /\ []<>(\A t \in Tasks : Accepted(t) => Completed(t) /\ runs[t] = 1)

\* Three accepted tasks have been executed, one of them accepted by a
\* SubmitWait, and no Shutdown has been called.
C31_Witness ==
    /\ ~closeCh
    /\ Cardinality({t \in Tasks : Accepted(t) /\ Completed(t) /\ runs[t] = 1}) >= 3
    /\ op = "SubmitWait" /\ Accepted(nextTask) /\ Completed(nextTask)

\* C37: a Submit or SubmitWait call that runs alongside Shutdown ends with
\* nil, ErrPoolFull or ErrPoolClosed and never sends on the closed task
\* channel, and once Shutdown has returned every task that got nil has been
\* executed.
C37_SubmitDuringShutdown ==
    /\ \A t \in Tasks : res[t] # "panic"
    /\ \A c \in Callers : ~(cpc[c] = "send" /\ tasksClosed)
    /\ (\E s \in Shutters : spc[s] = "returned") =>
          \A t \in Tasks : res[t] = "nil" => Completed(t)

(***************************************************************************)
(*                             TASK SCHEDULER                              *)
(***************************************************************************)

\* Bounds of the scheduler model.
MaxTime == 4          \* ticks of the 1-second ticker in one behaviour
MaxInterval == 2      \* largest interval (seconds) of an entry
MaxUnits == 2         \* launched goroutines of one entry alive at once
SecondsPerMinute == 2 \* ticks in one minute (60 in the source), scaled down

Entries == {"e1"}
Phases == {"before", "task", "epilogue", "after"}

\* The minute fields of the cron expressions explored, as their characters;
\* the other four fields are "*".  <<>> is entry.cronExpr of an interval entry.
Star == <<"*">>
CronFields == {Star, <<"*", "/", "2">>}

\* The registrations explored: Every(n).Seconds() or Cron(expr), with or
\* without WithoutOverlapping(), Before(fn), After(fn).
EntryConfigs ==
    [interval : 1..MaxInterval, cron : {<<>>}, noOverlap : BOOLEAN,
     before : BOOLEAN, after : BOOLEAN]
    \cup
    [interval : {0}, cron : CronFields, noOverlap : BOOLEAN,
     before : BOOLEAN, after : BOOLEAN]

ZeroTime == [sec |-> -1, late |-> FALSE]

InitSched ==
    /\ cfg \in [Entries -> EntryConfigs]
    /\ now = 0
    /\ lastRun = [e \in Entries |-> ZeroTime]
    /\ running = [e \in Entries |-> FALSE]
    /\ units = [e \in Entries |-> [p \in Phases |-> 0]]
    /\ skips = [e \in Entries |-> 0]
    /\ launched = [e \in Entries |-> 0]
    /\ afters = [e \in Entries |-> 0]
    /\ panics = [e \in Entries |-> 0]
    /\ schedStopped = FALSE
    /\ schedCrashed = FALSE

Alive(e) == units[e]["before"] + units[e]["task"] + units[e]["epilogue"]
            + units[e]["after"]

\* t.Minute() of the tick at second t.
Minute(t) == t \div SecondsPerMinute

DigitChars == {"0", "1", "2", "3", "4", "5", "6", "7", "8", "9"}
DigitVal(c) ==
    CASE c = "0" -> 0 [] c = "1" -> 1 [] c = "2" -> 2 [] c = "3" -> 3
      [] c = "4" -> 4 [] c = "5" -> 5 [] c = "6" -> 6 [] c = "7" -> 7
      [] c = "8" -> 8 [] c = "9" -> 9

\* The digits at the front of s read as a decimal number, given the value
\* acc of the digits already read: [val, rest].
RECURSIVE ScanDigits(_, _)
ScanDigits(s, acc) ==
    IF s # <<>> /\ Head(s) \in DigitChars
    THEN ScanDigits(Tail(s), 10 * acc + DigitVal(Head(s)))
    ELSE [val |-> acc, rest |-> s]

\* The verb %d of fmt.Sscanf on input s: an optional sign, then at least one
\* digit.  Without a digit the scan fails and the operand keeps its zero.
ScanInt(s) ==
    LET signed == s # <<>> /\ Head(s) \in {"+", "-"}
        body == IF signed THEN Tail(s) ELSE s
        d == ScanDigits(body, 0)
    IN  IF body = <<>> \/ Head(body) \notin DigitChars
        THEN [ok |-> FALSE, val |-> 0, rest |-> body]
        ELSE [ok |-> TRUE,
              val |-> IF signed /\ Head(s) = "-" THEN 0 - d.val ELSE d.val,
              rest |-> d.rest]

\* fmt.Sscanf(field, "%d-%d", &lo, &hi): the scan stops at the first
\* operand or literal that does not match; operands not reached stay 0.
ScanRange(s) ==
    LET a == ScanInt(s)
        b == ScanInt(Tail(a.rest))
    IN  IF ~a.ok THEN [lo |-> 0, hi |-> 0]
        ELSE IF a.rest = <<>> \/ Head(a.rest) # "-" THEN [lo |-> a.val, hi |-> 0]
        ELSE [lo |-> a.val, hi |-> b.val]

\* strings.HasPrefix(field, "*/") and strings.Contains(field, "-").
HasStepPrefix(field) == Len(field) >= 2 /\ field[1] = "*" /\ field[2] = "/"
HasDash(field) == \E i \in 1..Len(field) : field[i] = "-"

\* matchField: "*", "*/step", "lo-hi" or a number, tried in this order.
matchFieldStepAlways(field, val) ==
    IF field = Star THEN TRUE
    ELSE IF HasStepPrefix(field)
         THEN LET step == ScanInt(SubSeq(field, 3, Len(field))).val
              IN  step > 0
    ELSE IF HasDash(field)
         THEN val >= ScanRange(field).lo /\ val <= ScanRange(field).hi
    ELSE ScanInt(field).val = val
matchField(field, val) ==
    IF field = Star THEN TRUE
    ELSE IF HasStepPrefix(field)
         THEN LET step == ScanInt(SubSeq(field, 3, Len(field))).val
              IN  step > 0 /\ val % step = 0
    ELSE IF HasDash(field)
         THEN val >= ScanRange(field).lo /\ val <= ScanRange(field).hi
    ELSE ScanInt(field).val = val

\* The components matchCron reads from t, in field order: t.Minute(),
\* t.Hour(), t.Day(), int(t.Month()), int(t.Weekday()) (Sunday is 0).
Component(t, i) ==
    CASE i = 1 -> t.minute [] i = 2 -> t.hour [] i = 3 -> t.day
      [] i = 4 -> t.month [] i = 5 -> t.weekday

\* matchCron: expr is strings.Fields(expr), the fields between white space.
matchCron(expr, t) ==
    /\ Len(expr) = 5
    /\ \A i \in 1..5 : matchField(expr[i], Component(t, i))

\* The scheduler's cron entries: the minute field given, the others "*",
\* matched against the time of the tick at second t.
CronOf(field) == <<field, Star, Star, Star, Star>>
TimeOf(t) == [minute |-> Minute(t), hour |-> 0, day |-> 1, month |-> 1, weekday |-> 0]

\* isDue for an interval entry: first run, or now.Sub(e.lastRun) >= e.interval.
\* lastRun is the time.Now() of the dispatch: the second of its tick, and
\* whether the clock had moved on since the tick instant.
IntervalDueTickTime(e, t) ==
    \/ lastRun[e] = ZeroTime
    \/ t - lastRun[e].sec >= cfg[e].interval
IntervalDue(e, t) ==
    \/ lastRun[e] = ZeroTime
    \/ t - lastRun[e].sec > cfg[e].interval
    \/ t - lastRun[e].sec = cfg[e].interval /\ ~lastRun[e].late

\* isDue: a cron entry is due when the expression matches the tick's time;
\* lastRun is consulted for interval entries only.
isDue(e, t) ==
    IF cfg[e].cron # <<>>
    THEN matchCron(CronOf(cfg[e].cron), TimeOf(t))
    ELSE IntervalDue(e, t)

\* dispatch's overlap guard: e.noOverlap && e.running.
SkipNever(e) == FALSE
Skip(e) == cfg[e].noOverlap /\ running[e]

\* The phase a launched goroutine starts in.
FirstPhase(e) == IF cfg[e].before THEN "before" ELSE "task"

\* run, case now := <-ticker.C: every due entry is dispatched.  dispatch
\* either skips (overlap guard) or sets running and lastRun and launches the
\* goroutine.
Tick ==
    /\ ~schedCrashed /\ ~schedStopped
    /\ now < MaxTime
    /\ now' = now + 1
    /\ \A e \in Entries : (isDue(e, now + 1) /\ ~Skip(e)) => Alive(e) < MaxUnits
    /\ \E late \in [Entries -> BOOLEAN] :
          /\ \A e \in Entries : (~isDue(e, now + 1) \/ Skip(e)) => ~late[e]
          /\ lastRun' = [e \in Entries |->
                IF isDue(e, now + 1) /\ ~Skip(e)
                THEN [sec |-> now + 1, late |-> late[e]] ELSE lastRun[e]]
    /\ running' = [e \in Entries |->
          IF isDue(e, now + 1) /\ ~Skip(e) THEN TRUE ELSE running[e]]
    /\ units' = [e \in Entries |->
          IF isDue(e, now + 1) /\ ~Skip(e)
          THEN [units[e] EXCEPT ![FirstPhase(e)] = @ + 1] ELSE units[e]]
    /\ skips' = [e \in Entries |->
          IF isDue(e, now + 1) /\ Skip(e) THEN skips[e] + 1 ELSE skips[e]]
    /\ launched' = [e \in Entries |->
          IF isDue(e, now + 1) /\ ~Skip(e) THEN launched[e] + 1 ELSE launched[e]]
    /\ UNCHANGED <<cfg, afters, panics, schedStopped, schedCrashed>>
    /\ UNCHANGED nonSched

\* run, case <-ctx.Done(): the loop returns; launched goroutines go on.
StopSched ==
    /\ ~schedCrashed /\ ~schedStopped
    /\ schedStopped' = TRUE
    /\ UNCHANGED <<cfg, launched, afters, panics, now, lastRun, running, units, skips, schedCrashed>>
    /\ UNCHANGED nonSched

Move(e, from, to) ==
    units' = [units EXCEPT ![e] =
                 IF to = "gone" THEN [@ EXCEPT ![from] = @ - 1]
                 ELSE [@ EXCEPT ![from] = @ - 1, ![to] = @ + 1]]

\* The launched goroutine: e.beforeHook() returns, or panics into the
\* deferred function.
UnitBefore(e, fails) ==
    /\ ~schedCrashed
    /\ units[e]["before"] > 0
    /\ Move(e, "before", IF fails THEN "epilogue" ELSE "task")
    /\ panics' = [panics EXCEPT ![e] = IF fails THEN @ + 1 ELSE @]
    /\ UNCHANGED <<cfg, launched, afters, now, lastRun, running, skips, schedStopped, schedCrashed>>
    /\ UNCHANGED nonSched

\* The launched goroutine: e.task() returns or panics; the deferred function
\* runs next either way.
UnitTask(e, fails) ==
    /\ ~schedCrashed
    /\ units[e]["task"] > 0
    /\ Move(e, "task", "epilogue")
    /\ panics' = [panics EXCEPT ![e] = IF fails THEN @ + 1 ELSE @]
    /\ UNCHANGED <<cfg, launched, afters, now, lastRun, running, skips, schedStopped, schedCrashed>>
    /\ UNCHANGED nonSched

\* The deferred function, if e.afterHook != nil { e.afterHook() }.
EpilogueNextNoHook(e) == "gone"
EpilogueNext(e) == IF cfg[e].after THEN "after" ELSE "gone"

\* The deferred function: e.running = false under the lock, then recover(),
\* then the after hook is called, if there is one.
UnitEpilogue(e) ==
    /\ ~schedCrashed
    /\ units[e]["epilogue"] > 0
    /\ running' = [running EXCEPT ![e] = FALSE]
    /\ Move(e, "epilogue", EpilogueNext(e))
    /\ afters' = [afters EXCEPT ![e] =
                     IF EpilogueNext(e) = "after" THEN @ + 1 ELSE @]
    /\ UNCHANGED <<cfg, launched, panics, now, lastRun, skips, schedStopped, schedCrashed>>
    /\ UNCHANGED nonSched

\* e.afterHook() returns.  It runs in the deferred function after recover()
\* was called, so when it panics nothing recovers it: the process ends.
UnitAfter(e, fails) ==
    /\ ~schedCrashed
    /\ units[e]["after"] > 0
    /\ IF fails
       THEN schedCrashed' = TRUE /\ UNCHANGED units
       ELSE Move(e, "after", "gone") /\ UNCHANGED schedCrashed
    /\ UNCHANGED <<cfg, launched, afters, panics, now, lastRun, running, skips, schedStopped>>
    /\ UNCHANGED nonSched

NextSched ==
    \/ Tick
    \/ StopSched
    \/ \E e \in Entries :
          \/ \E p \in BOOLEAN : UnitBefore(e, p)
          \/ \E p \in BOOLEAN : UnitTask(e, p)
          \/ UnitEpilogue(e)
          \/ \E p \in BOOLEAN : UnitAfter(e, p)

(***************************************************************************)
(*                        Claims about the scheduler                       *)
(***************************************************************************)

\* C3: for an entry registered with WithoutOverlapping, at most one
\* execution of its task is under way in every reachable state: at most one
\* launched goroutine is in its before hook, its task or has yet to clear
\* the running flag.
C3_NoOverlap ==
    \A e \in Entries :
        cfg[e].noOverlap =>
            units[e]["before"] + units[e]["task"] + units[e]["epilogue"] <= 1

\* A no-overlap entry's task is still running after ticks that found the
\* entry due were skipped.
C3_Witness ==
    \E e \in Entries :
        cfg[e].noOverlap /\ units[e]["task"] = 1 /\ skips[e] >= 2

\* The tick step dispatched entry e: dispatch stamps lastRun with the time
\* of the tick.
Dispatched(e) == lastRun'[e] # lastRun[e]

\* C15: a cron entry is dispatched at most once in a matching minute: a tick
\* that dispatches it is the first dispatch of the entry in that minute.
C15_CronOncePerMinute ==
    [][\A e \in Entries :
          (cfg[e].cron # <<>> /\ Dispatched(e)) =>
              (lastRun[e] = ZeroTime
                  \/ Minute(lastRun[e].sec) # Minute(lastRun'[e].sec))]_vars

\* Launched goroutines of entry e whose deferred function has not run yet.
InBody(e) == units[e]["before"] + units[e]["task"] + units[e]["epilogue"]

\* C16: in every launched execution the before hook (if any) runs first and
\* the task starts only when it has returned; the deferred function runs
\* whether the body returned or panicked, clears running and then invokes
\* the after hook (if any), once for every execution.
C16_HookOrder ==
    /\ [](\A e \in Entries :
            /\ afters[e] = IF cfg[e].after THEN launched[e] - InBody(e) ELSE 0
            /\ units[e]["after"] <= afters[e])
    /\ [][\A e \in Entries :
            /\ launched'[e] > launched[e] =>
                  IF cfg[e].before
                  THEN units'[e]["before"] = units[e]["before"] + 1
                       /\ units'[e]["task"] = units[e]["task"]
                  ELSE units'[e]["task"] = units[e]["task"] + 1
            /\ (units'[e]["task"] > units[e]["task"] /\ cfg[e].before) =>
                  /\ units'[e]["before"] = units[e]["before"] - 1
                  /\ panics'[e] = panics[e]
            /\ panics'[e] > panics[e] =>
                  units'[e]["epilogue"] = units[e]["epilogue"] + 1
            /\ afters'[e] > afters[e] =>
                  /\ afters'[e] = afters[e] + 1
                  /\ units'[e]["epilogue"] = units[e]["epilogue"] - 1
                  /\ units'[e]["after"] = units[e]["after"] + 1
                  /\ ~running'[e]]_vars

\* An entry with both hooks was launched twice; one before hook and one
\* task panicked, and the after hook has been invoked and has returned for
\* both executions.
C16_Witness ==
    \E e \in Entries :
        /\ cfg[e].before /\ cfg[e].after
        /\ launched[e] = 2 /\ panics[e] = 2 /\ afters[e] = 2
        /\ Alive(e) = 0
        /\ ~schedCrashed

\* C17: a panic raised by the before hook, the task or the after hook is
\* recovered inside the launched goroutine: the process keeps running.
C17_PanicsRecovered == ~schedCrashed

\* Twice the time from the last launched dispatch of e (its time.Now(), at
\* or just after the instant of its tick) to the tick at second t, rounded down.
SinceLastRun2(e, t) == 2 * (t - lastRun[e].sec) - (IF lastRun[e].late THEN 1 ELSE 0)

\* C28: an interval entry is launched by the first tick; afterwards a tick
\* calls dispatch for it (launching it, or skipping it under the overlap
\* guard) exactly when the tick's time minus last_run is at least the
\* interval.  last_run is set by the launching tick and by nothing else
\* (not by the task's completion), so two consecutive launches are at least
\* the interval apart.
C28_IntervalDispatch ==
    /\ [](\A e \in Entries : (cfg[e].cron = <<>> /\ now >= 1) => launched[e] >= 1)
    /\ [][\A e \in Entries : cfg[e].cron = <<>> =>
            /\ (now' = now) => lastRun'[e] = lastRun[e]
            /\ (now' # now) =>
                 /\ (launched'[e] + skips'[e] # launched[e] + skips[e]) <=>
                       \/ lastRun[e] = ZeroTime
                       \/ SinceLastRun2(e, now') >= 2 * cfg[e].interval
                 /\ launched'[e] = launched[e] => lastRun'[e] = lastRun[e]
                 /\ launched'[e] # launched[e] =>
                       /\ lastRun'[e].sec = now'
                       /\ lastRun[e] # ZeroTime =>
                             now' - lastRun[e].sec >= cfg[e].interval]_vars

\* An entry registered with Every(2).Seconds() has been launched twice, the
\* second time while the first task was still running.
C28_Witness ==
    \E e \in Entries :
        /\ cfg[e].cron = <<>> /\ cfg[e].interval = 2
        /\ launched[e] = 2
        /\ Alive(e) = 2

\* C33: a dispatch skipped by the overlap guard launches nothing, calls no
\* hook and leaves running and last_run alone; and while an execution of a
\* no-overlap interval entry is under way, every tick that comes at least
\* the interval after the tick that launched it finds the entry due and
\* skips it.
C33_SkipAgainEveryTick ==
    [][\A e \in Entries : (cfg[e].cron = <<>> /\ cfg[e].noOverlap) =>
          /\ skips'[e] # skips[e] =>
                /\ launched'[e] = launched[e] /\ units'[e] = units[e]
                /\ afters'[e] = afters[e]
                /\ running'[e] = running[e] /\ lastRun'[e] = lastRun[e]
          /\ (now' # now /\ running[e] /\ now' - lastRun[e].sec >= cfg[e].interval) =>
                skips'[e] = skips[e] + 1]_vars

\* C38: for a no-overlap entry, no before hook or task of a new execution
\* runs while the after hook of an earlier execution is running.
C38_GuardCoversAfterHook ==
    \A e \in Entries :
        cfg[e].noOverlap =>
            ~(units[e]["after"] > 0 /\ units[e]["before"] + units[e]["task"] > 0)

(***************************************************************************)
(*                                LOG SINK                                 *)
(***************************************************************************)

\* Bounds of the log sink model.  The source's queue holds 4096 documents
\* and a batch 50; both are scaled down, keeping queue and batch distinct
\* from the number of records emitted.
mongoQueueSize == 2   \* capacity of h.queue
mongoBatchSize == 2   \* documents that trigger a flush
MaxRecords == 5       \* Handle calls made in one behaviour

LogRecords == 1..MaxRecords
Closers == {1, 2}

InitLog ==
    /\ logQ = <<>>
    /\ nextRec = 0
    /\ fate = [r \in LogRecords |-> "none"]
    /\ herr = "none"
    /\ batch = <<>>
    /\ inserts = <<>>
    /\ dpc = "select"
    /\ final = FALSE
    /\ done = FALSE
    /\ lpc = [c \in Closers |-> "idle"]
    /\ closeMark = -1
    /\ disconnected = FALSE
    /\ logCrashed = FALSE

\* The send case of Handle's select is ready when the buffer has room.
QueueHasRoomAlways == TRUE
QueueHasRoom == Len(logQ) < mongoQueueSize

\* Handle: builds the document, then a select with a send case and a default
\* case; returns nil.
Handle ==
    /\ ~logCrashed
    /\ nextRec < MaxRecords
    /\ nextRec' = nextRec + 1
    /\ IF QueueHasRoom
       THEN /\ logQ' = Append(logQ, nextRec + 1)
            /\ fate' = [fate EXCEPT ![nextRec + 1] = "queued"]
       ELSE /\ logQ' = logQ
            /\ fate' = [fate EXCEPT ![nextRec + 1] = "dropped"]
    /\ herr' = "nil"
    /\ UNCHANGED <<batch, inserts, dpc, final, done, lpc, closeMark, disconnected, logCrashed>>
    /\ UNCHANGED nonLog

\* drainLoop after an append: if len(batch) >= mongoBatchSize { flush() }.
BatchFullNever(n) == FALSE
BatchFull(n) == n >= mongoBatchSize

\* drainLoop, case doc := <-h.queue: append to the batch, flush when the
\* batch has reached mongoBatchSize.
DrainRecv ==
    /\ ~logCrashed
    /\ dpc = "select"
    /\ logQ # <<>>
    /\ logQ' = Tail(logQ)
    /\ batch' = Append(batch, Head(logQ))
    /\ dpc' = IF BatchFull(Len(batch) + 1) THEN "insert" ELSE "select"
    /\ UNCHANGED <<nextRec, fate, herr, inserts, final, done, lpc, closeMark, disconnected, logCrashed>>
    /\ UNCHANGED nonLog

\* drainLoop, case <-ticker.C: flush.  With an empty batch flush returns at
\* once and nothing changes.
DrainTick ==
    /\ ~logCrashed
    /\ dpc = "select"
    /\ batch # <<>>
    /\ dpc' = "insert"
    /\ UNCHANGED <<logQ, nextRec, fate, herr, batch, inserts, final, done, lpc, closeMark, disconnected, logCrashed>>
    /\ UNCHANGED nonLog

\* flush: InsertMany returns (its error is ignored) and the batch is reset.
\* The drainer stays in "insert" for as long as the store takes.
FlushedKeeps(b) == b
Flushed(b) == SubSeq(b, 1, 0)     \* batch = batch[:0]

InsertMany ==
    /\ ~logCrashed
    /\ dpc = "insert"
    /\ inserts' = Append(inserts, [docs |-> batch, ok |-> ~disconnected])
    /\ batch' = Flushed(batch)
    /\ dpc' = IF final THEN "exited" ELSE "select"
    /\ UNCHANGED <<logQ, nextRec, fate, herr, final, done, lpc, closeMark, disconnected, logCrashed>>
    /\ UNCHANGED nonLog

\* drainLoop, case <-h.done.
DrainDone ==
    /\ ~logCrashed
    /\ dpc = "select"
    /\ done
    /\ dpc' = "drain"
    /\ UNCHANGED <<logQ, nextRec, fate, herr, batch, inserts, final, done, lpc, closeMark, disconnected, logCrashed>>
    /\ UNCHANGED nonLog

\* for len(h.queue) > 0 { batch = append(batch, <-h.queue) }
DrainRemaining ==
    /\ ~logCrashed
    /\ dpc = "drain"
    /\ logQ # <<>>
    /\ logQ' = Tail(logQ)
    /\ batch' = Append(batch, Head(logQ))
    /\ UNCHANGED <<nextRec, fate, herr, inserts, dpc, final, done, lpc, closeMark, disconnected, logCrashed>>
    /\ UNCHANGED nonLog

\* The drain loop saw an empty queue: the last flush, then return.
DrainFinish ==
    /\ ~logCrashed
    /\ dpc = "drain"
    /\ logQ = <<>>
    /\ final' = TRUE
    /\ dpc' = IF batch = <<>> THEN "exited" ELSE "insert"
    /\ UNCHANGED <<logQ, nextRec, fate, herr, batch, inserts, done, lpc, closeMark, disconnected, logCrashed>>
    /\ UNCHANGED nonLog

\* Close: the select on h.done.  The closed channel selects the first case;
\* otherwise the default case is chosen, and close(h.done) comes next.
CloseSelect(c) ==
    /\ ~logCrashed
    /\ lpc[c] = "idle"
    /\ \A d \in Closers : d < c => lpc[d] # "idle"
    /\ lpc' = [lpc EXCEPT ![c] = IF done THEN "disconnect" ELSE "close"]
    /\ closeMark' = IF closeMark = -1 THEN nextRec ELSE closeMark
    /\ UNCHANGED <<logQ, nextRec, fate, herr, batch, inserts, dpc, final, done, disconnected, logCrashed>>
    /\ UNCHANGED nonLog

\* Close: close(h.done) in the default case.
CloseDone(c) ==
    /\ ~logCrashed
    /\ lpc[c] = "close"
    /\ ~done
    /\ done' = TRUE
    /\ lpc' = [lpc EXCEPT ![c] = "disconnect"]
    /\ UNCHANGED <<closeMark, logQ, nextRec, fate, herr, batch, inserts, dpc, final, disconnected, logCrashed>>
    /\ UNCHANGED nonLog

\* Close: close(h.done) when another Close has closed it since the select:
\* close of a closed channel panics.
CloseTwice(c) ==
    /\ ~logCrashed
    /\ lpc[c] = "close"
    /\ done
    /\ logCrashed' = TRUE
    /\ UNCHANGED <<logQ, nextRec, fate, herr, batch, inserts, dpc, final, done, lpc, closeMark, disconnected>>
    /\ UNCHANGED nonLog

\* Close: h.client.Disconnect(ctx), then return.
Disconnect(c) ==
    /\ ~logCrashed
    /\ lpc[c] = "disconnect"
    /\ disconnected' = TRUE
    /\ lpc' = [lpc EXCEPT ![c] = "returned"]
    /\ UNCHANGED <<closeMark, logQ, nextRec, fate, herr, batch, inserts, dpc, final, done, logCrashed>>
    /\ UNCHANGED nonLog

NextLog ==
    \/ Handle
    \/ DrainRecv
    \/ DrainTick
    \/ InsertMany
    \/ DrainDone
    \/ DrainRemaining
    \/ DrainFinish
    \/ \E c \in Closers :
          \/ CloseSelect(c)
          \/ CloseDone(c)
          \/ CloseTwice(c)
          \/ Disconnect(c)

\* The sink while nobody calls Close.
NextLogOpen ==
    \/ Handle
    \/ DrainRecv
    \/ DrainTick
    \/ InsertMany

(***************************************************************************)
(*                         Claims about the log sink                       *)
(***************************************************************************)

\* C4: Handle never blocks and always returns nil.  Whatever the drainer is
\* doing (waiting in its select, inside a slow InsertMany, draining after
\* Close, or gone), a Handle call can complete; when the queue holds fewer
\* than its capacity the record is appended, otherwise the record is
\* dropped and the queue is unchanged; the queue never holds more than its
\* capacity.
C4_HandleNeverBlocks ==
    /\ [](Len(logQ) <= mongoQueueSize)
    /\ [](nextRec > 0 => herr = "nil")
    /\ []((~logCrashed /\ nextRec < MaxRecords) => ENABLED Handle)
    /\ [][nextRec' # nextRec =>
            IF Len(logQ) < mongoQueueSize
            THEN logQ' = Append(logQ, nextRec') /\ fate'[nextRec'] = "queued"
            ELSE logQ' = logQ /\ fate'[nextRec'] = "dropped"]_vars

\* A record was dropped while the drainer was inside InsertMany: the batch
\* being inserted and the full queue hold every earlier record, so the
\* latest record met a full queue after the insert had begun.
C4_Witness ==
    /\ dpc = "insert"
    /\ Len(batch) = mongoBatchSize
    /\ Len(logQ) = mongoQueueSize
    /\ nextRec = mongoBatchSize + mongoQueueSize + 1
    /\ fate[nextRec] = "dropped"
    /\ \A r \in 1..(nextRec - 1) : fate[r] = "queued"

\* Record r is in a bulk insert the drainer has issued.
Included(r) ==
    \/ \E i \in 1..Len(inserts) :
          \E k \in 1..Len(inserts[i].docs) : inserts[i].docs[k] = r
    \/ dpc = "insert" /\ \E k \in 1..Len(batch) : batch[k] = r

\* C18: when a Close call has returned, the drainer has emptied the queue,
\* done its final flush and returned, and every record queued before Close
\* was called is in a bulk insert that has been issued.
C18_CloseFlushes ==
    (\E c \in Closers : lpc[c] = "returned") =>
        /\ dpc = "exited"
        /\ \A r \in 1..closeMark : fate[r] = "queued" => Included(r)

\* C19: Close may be called any number of times, one after the other or
\* from several goroutines at once: no call panics.
C19_CloseIdempotent == ~logCrashed

\* C20: every bulk insert the drainer issues, the final flush included,
\* holds at least one record and at most mongoBatchSize records.
C20_BatchSize ==
    /\ \A i \in 1..Len(inserts) :
          Len(inserts[i].docs) >= 1 /\ Len(inserts[i].docs) <= mongoBatchSize
    /\ dpc = "insert" => Len(batch) >= 1 /\ Len(batch) <= mongoBatchSize

\* The documents of the first n InsertMany calls, in the order issued.
RECURSIVE Inserted(_)
Inserted(n) == IF n = 0 THEN <<>> ELSE Inserted(n - 1) \o inserts[n].docs

\* Records are numbered in emission order: a sequence of records is in
\* emission order without repeats when its numbers increase.
Increasing(s) == \A i, k \in 1..Len(s) : i < k => s[i] < s[k]

\* C30: the documents of all InsertMany calls, in the order the calls were
\* issued, followed by the batch and the queue, are accepted records in
\* emission order, none repeated; every InsertMany call carries the whole
\* batch and leaves the batch empty.
C30_InsertOrder ==
    /\ [](/\ Increasing(Inserted(Len(inserts)) \o batch \o logQ)
          /\ \A i \in 1..Len(inserts) : \A k \in 1..Len(inserts[i].docs) :
                fate[inserts[i].docs[k]] = "queued")
    /\ [][Len(inserts') > Len(inserts) =>
            /\ Last(inserts').docs = batch
            /\ batch # <<>>
            /\ batch' = <<>>]_vars

\* Two bulk inserts have been issued, and a record emitted between two
\* inserted records was dropped.
C30_Witness ==
    /\ Len(inserts) >= 2
    /\ \E r \in LogRecords :
          /\ fate[r] = "dropped"
          /\ \E i, k \in 1..Len(Inserted(Len(inserts))) :
                Inserted(Len(inserts))[i] < r /\ r < Inserted(Len(inserts))[k]

\* C34: while the sink is open, the drainer comes again and again to a
\* state in which every accepted record has been sent in a bulk insert; a
\* batch never waits in the drainer's select once it holds mongoBatchSize
\* records, a batch that holds fewer is flushed by the tick, and no insert
\* is issued for an empty batch.
C34_OpenSinkFlushes ==
    /\ []<>(\A r \in LogRecords : fate[r] = "queued" =>
               \E i \in 1..Len(inserts) :
                  \E k \in 1..Len(inserts[i].docs) : inserts[i].docs[k] = r)
    /\ [](dpc = "select" => Len(batch) < mongoBatchSize)
    /\ []((dpc = "select" /\ batch # <<>>) => ENABLED DrainTick)
    /\ [](\A i \in 1..Len(inserts) : inserts[i].docs # <<>>)
    /\ [][Len(inserts') > Len(inserts) => batch # <<>>]_vars

\* A full batch has been inserted, and later a batch of fewer records was
\* flushed by the tick.
C34_Witness ==
    /\ ~done
    /\ Len(inserts) >= 2
    /\ Len(inserts[1].docs) = mongoBatchSize
    /\ Len(inserts[2].docs) < mongoBatchSize

\* C35: a record emitted after Close was called gets a nil return from
\* Handle and is in no bulk insert, at any point of the drainer's shutdown.
C35_EmitAfterCloseDropped ==
    closeMark # -1 =>
        /\ nextRec > closeMark => herr = "nil"
        /\ \A r \in (closeMark + 1)..nextRec :
              \A i \in 1..Len(inserts) :
                 \A k \in 1..Len(inserts[i].docs) : inserts[i].docs[k] # r

(***************************************************************************)
(*                 DURABLE DRIVER AND DELAYED DISPATCH                     *)
(***************************************************************************)

\* Bounds of the durable driver model.
MaxEnvelopes == 2     \* envelopes created in one behaviour
MaxDelay == 1         \* largest delay (seconds) of a delayed dispatch
MaxClock == 2         \* seconds the clock runs

Envelopes == 1..MaxEnvelopes
Delays == 0..MaxDelay
\* Promoter goroutines: each NewRedisDriver starts one, in this process or
\* in another process that uses the same store.
Promoters == {1, 2}
\* A sleeping goroutine of DispatchAfter: its job and the time it wakes up.
Timers == [job : Envelopes, wake : 0..(MaxClock + MaxDelay)]

InitRedis ==
    /\ rnow = 0
    /\ nProm \in Promoters
    /\ zset = {}
    /\ rlist = <<>>
    /\ rnext = 0
    /\ rsrc = [j \in Envelopes |-> "none"]
    /\ timers = {}
    /\ ppc = [p \in Promoters |-> "idle"]
    /\ ppipe = [p \in Promoters |-> <<>>]
    /\ pushes = [j \in Envelopes |-> 0]
    /\ rpopped = {}

\* One second passes.
RedisSecond ==
    /\ rnow < MaxClock
    /\ rnow' = rnow + 1
    /\ UNCHANGED <<nProm, zset, rlist, rnext, rsrc, timers, ppc, ppipe, pushes, rpopped>>
    /\ UNCHANGED nonRedis

\* DispatchAfter(job, delay): go func() { time.Sleep(delay); Dispatch(job) }().
\* The call starts a goroutine and returns; nothing reaches the driver.
DispatchAfter(delay) ==
    /\ rnext < MaxEnvelopes
    /\ rnext' = rnext + 1
    /\ rsrc' = [rsrc EXCEPT ![rnext + 1] = "DispatchAfter"]
    /\ timers' = timers \cup {[job |-> rnext + 1, wake |-> rnow + delay]}
    /\ UNCHANGED <<rnow, nProm, zset, rlist, ppc, ppipe, pushes, rpopped>>
    /\ UNCHANGED nonRedis

\* The goroutine of DispatchAfter wakes up: Dispatch -> RedisDriver.Push (LPUSH).
TimerFire(t) ==
    /\ t \in timers
    /\ rnow >= t.wake
    /\ timers' = timers \ {t}
    /\ rlist' = Append(rlist, t.job)
    /\ UNCHANGED <<rnow, nProm, zset, rnext, rsrc, ppc, ppipe, pushes, rpopped>>
    /\ UNCHANGED nonRedis

\* The process stops and is started again: its goroutines are gone, the
\* store keeps what it holds, and NewRedisDriver starts the promoters anew.
Restart ==
    /\ timers # {} \/ \E p \in 1..nProm : ppc[p] # "idle"
    /\ timers' = {}
    /\ ppc' = [p \in Promoters |-> "idle"]
    /\ ppipe' = [p \in Promoters |-> <<>>]
    /\ UNCHANGED <<rnow, nProm, zset, rlist, rnext, rsrc, pushes, rpopped>>
    /\ UNCHANGED nonRedis

\* RedisDriver.PushDelayed: ZADD with score = now + delay.
PushDelayed(delay) ==
    /\ rnext < MaxEnvelopes
    /\ rnext' = rnext + 1
    /\ rsrc' = [rsrc EXCEPT ![rnext + 1] = "PushDelayed"]
    /\ zset' = zset \cup {[job |-> rnext + 1, score |-> rnow + delay]}
    /\ UNCHANGED <<rnow, nProm, rlist, timers, ppc, ppipe, pushes, rpopped>>
    /\ UNCHANGED nonRedis

\* RedisDriver.PushDelayed with the bytes of an envelope that is in the
\* delayed set: the member of a sorted set is the payload string, so ZADD
\* finds the member and only sets its score.
PushDelayedSame(delay) ==
    /\ rnext < MaxEnvelopes
    /\ rnext' = rnext + 1
    /\ rsrc' = [rsrc EXCEPT ![rnext + 1] = "PushDelayedSame"]
    /\ \E m \in zset :
          zset' = (zset \ {m}) \cup {[job |-> m.job, score |-> rnow + delay]}
    /\ UNCHANGED <<rnow, nProm, rlist, timers, ppc, ppipe, pushes, rpopped>>
    /\ UNCHANGED nonRedis

\* ZRANGEBYSCORE -inf now: the members with score <= now, by score and then
\* by member.
Due == {m \in zset : m.score <= rnow}
Before(m, n) == m.score < n.score \/ (m.score = n.score /\ m.job < n.job)
RECURSIVE Ordered(_)
Ordered(ms) ==
    IF ms = {} THEN <<>>
    ELSE LET first == CHOOSE m \in ms : \A n \in ms \ {m} : Before(m, n)
         IN <<first>> \o Ordered(ms \ {first})

\* The pipeline promoteDelayedJobs builds: ZREM then LPUSH for every job.
RECURSIVE Pipeline(_)
Pipeline(ms) ==
    IF ms = <<>> THEN <<>>
    ELSE <<[cmd |-> "ZREM", job |-> Head(ms).job],
           [cmd |-> "LPUSH", job |-> Head(ms).job]>> \o Pipeline(Tail(ms))

\* promoteDelayedJobs, one tick: read the due members; if there are any,
\* queue the pipeline and Exec it.
PromoteScan(p) ==
    /\ p \in 1..nProm
    /\ ppc[p] = "idle"
    /\ Due # {}
    /\ ppipe' = [ppipe EXCEPT ![p] = Pipeline(Ordered(Due))]
    /\ ppc' = [ppc EXCEPT ![p] = "exec"]
    /\ UNCHANGED <<rnow, nProm, zset, rlist, rnext, rsrc, timers, pushes, rpopped>>
    /\ UNCHANGED nonRedis

\* The server runs the next command of a pipeline.  A pipeline is no
\* transaction: commands of other clients run between its commands.
PipeStep(p) ==
    /\ p \in 1..nProm
    /\ ppc[p] = "exec"
    /\ ppipe[p] # <<>>
    /\ LET c == Head(ppipe[p]) IN
          IF c.cmd = "ZREM"
          THEN /\ zset' = {m \in zset : m.job # c.job}
               /\ UNCHANGED <<rlist, pushes>>
          ELSE /\ rlist' = Append(rlist, c.job)
               /\ pushes' = [pushes EXCEPT ![c.job] = @ + 1]
               /\ UNCHANGED zset
    /\ ppipe' = [ppipe EXCEPT ![p] = Tail(@)]
    /\ ppc' = [ppc EXCEPT ![p] = IF Len(ppipe[p]) = 1 THEN "idle" ELSE "exec"]
    /\ UNCHANGED <<rnow, nProm, rnext, rsrc, timers, rpopped>>
    /\ UNCHANGED nonRedis

\* The promoter stops while the server has run only part of its pipeline
\* (the process dies, or the connection breaks, during Exec).
PromoterStops(p) ==
    /\ p \in 1..nProm
    /\ ppc[p] = "exec"
    /\ ppc' = [ppc EXCEPT ![p] = "stopped"]
    /\ ppipe' = [ppipe EXCEPT ![p] = <<>>]
    /\ UNCHANGED <<rnow, nProm, zset, rlist, rnext, rsrc, timers, pushes, rpopped>>
    /\ UNCHANGED nonRedis

\* RedisDriver.Pop: BRPOP takes the oldest element of the primary list.
RedisPop ==
    /\ rlist # <<>>
    /\ rlist' = Tail(rlist)
    /\ rpopped' = rpopped \cup {Head(rlist)}
    /\ UNCHANGED <<rnow, nProm, zset, rnext, rsrc, timers, ppc, ppipe, pushes>>
    /\ UNCHANGED nonRedis

NextRedis ==
    \/ RedisSecond
    \/ \E d \in Delays : DispatchAfter(d)
    \/ \E t \in Timers : TimerFire(t)
    \/ Restart
    \/ \E d \in Delays : PushDelayed(d)
    \/ \E d \in Delays : PushDelayedSame(d)
    \/ Cancel
    \/ \E p \in Promoters :
          \/ PromoteScan(p)
          \/ PipeStep(p)
          \/ PromoterStops(p)
    \/ RedisPop

(***************************************************************************)
(*                    Claims about the durable driver                      *)
(***************************************************************************)

InZset(j) == \E m \in zset : m.job = j
InList(j) == {i \in 1..Len(rlist) : rlist[i] = j}

\* C21: with the durable driver, an envelope created by DispatchAfter is
\* held by the store from the call on: it is in the delayed sorted set until
\* it is ready, then in the primary list, until a worker pops it.
C21_DelayedInStore ==
    \A j \in Envelopes :
        rsrc[j] = "DispatchAfter" =>
            InZset(j) \/ InList(j) # {} \/ j \in rpopped

\* C22: with one promoter, once the promoter is not in the middle of a
\* pipeline (it finished the round or stopped during it), every envelope
\* pushed to the delayed set and not yet popped is in exactly one of the
\* delayed set and the primary list.
C22_PromotionAtomic ==
    (nProm = 1 /\ ppc[1] # "exec") =>
        \A j \in Envelopes :
            (rsrc[j] = "PushDelayed" /\ j \notin rpopped) =>
                /\ InZset(j) \/ InList(j) # {}
                /\ ~(InZset(j) /\ InList(j) # {})

\* C23: with two promoters on the same store, every delayed envelope is
\* pushed to the primary list at most once.
C23_NoDoublePromotion ==
    nProm = 2 => \A j \in Envelopes : pushes[j] <= 1

\* C32: once the application's context is cancelled the promoter finishes
\* the round it is in and exits: no promoter starts a new round.
C32_PromoterStopsOnCancel ==
    [][cancelled =>
          \A p \in Promoters : (ppc[p] = "idle" => ppc'[p] # "exec")]_vars

\* C40: every PushDelayed call gets an entry of its own in the delayed set,
\* so that n calls yield n promotions, each at its own ready time: the call
\* adds one member and leaves the scores of the members already there.
C40_OnePromotionPerPush ==
    [][(rnext' = rnext + 1 /\ rsrc'[rnext + 1] \in {"PushDelayed", "PushDelayedSame"}) =>
          /\ Cardinality(zset') = Cardinality(zset) + 1
          /\ zset \subseteq zset']_vars

(***************************************************************************)
(*                         CRON EXPRESSION MATCHER                         *)
(***************************************************************************)

\* Bounds of the inputs matchCron is called with.
MaxFieldLen == 3      \* characters of a field explored exhaustively
MaxMinute == 59       \* largest value of t.Minute() (not a bound of the model)
MaxCronFields == 6    \* fields of an expression (5 is the well-formed count)

\* The characters fields are made of.
FieldChars == {"*", "/", "-", "0", "3", "5"}
AllFields == UNION {[1..n -> FieldChars] : n \in 1..MaxFieldLen}

\* Expressions of any field count over a few well-formed fields, and the
\* times they are matched against.
FieldPool == {Star, <<"3">>, <<"1", "-", "3">>}
PoolExprs == UNION {[1..n -> FieldPool] : n \in 0..MaxCronFields}
PoolTimes == [minute : {0, 3}, hour : {3, 4}, day : {1, 3}, month : {1, 3},
              weekday : {0, 3}]

MinuteTime(m) == [minute |-> m, hour |-> 0, day |-> 1, month |-> 1, weekday |-> 0]
ThreeAm == <<<<"0">>, <<"3">>, Star, Star, Star>>
EveryFive == CronOf(<<"*", "/", "5">>)

\* The calls explored: every short field as the minute field against every
\* minute; the pool expressions against the pool times; "0 3 * * *" against
\* every minute of two hours.
CronInputs ==
    {<<CronOf(f), MinuteTime(m)>> : f \in AllFields, m \in 0..MaxMinute}
    \cup (PoolExprs \X PoolTimes)
    \cup {<<ThreeAm, [MinuteTime(m) EXCEPT !.hour = h]>> :
              m \in 0..MaxMinute, h \in {0, 3}}

InitCron ==
    /\ \E in \in CronInputs : cexpr = in[1] /\ ctime = in[2]
    /\ cout = <<>>

CronIdle ==
    /\ cexpr = <<>>
    /\ ctime = MinuteTime(0)
    /\ cout = <<>>

\* matchCron(expr, t) is called and returns.
CallMatchCron ==
    /\ cout = <<>>
    /\ cout' = <<matchCron(cexpr, ctime)>>
    /\ UNCHANGED <<cexpr, ctime>>
    /\ UNCHANGED nonCron

NextCron == CallMatchCron

(***************************************************************************)
(*                     Claims about the cron matcher                       *)
(***************************************************************************)

\* The four field forms the documentation gives, and their values.
IsNumber(f) == f # <<>> /\ \A i \in 1..Len(f) : f[i] \in DigitChars

RECURSIVE NumVal(_)
NumVal(f) ==
    IF f = <<>> THEN 0
    ELSE 10 * NumVal(SubSeq(f, 1, Len(f) - 1)) + DigitVal(f[Len(f)])

IsStep(f) ==
    /\ Len(f) > 2 /\ f[1] = "*" /\ f[2] = "/"
    /\ IsNumber(SubSeq(f, 3, Len(f)))
    /\ NumVal(SubSeq(f, 3, Len(f))) > 0

RangeAt(f) ==
    {k \in 2..(Len(f) - 1) :
        /\ f[k] = "-"
        /\ IsNumber(SubSeq(f, 1, k - 1))
        /\ IsNumber(SubSeq(f, k + 1, Len(f)))}

WellFormed(f) == f = Star \/ IsNumber(f) \/ IsStep(f) \/ RangeAt(f) # {}

Documented(f, v) ==
    \/ f = Star
    \/ IsNumber(f) /\ v = NumVal(f)
    \/ IsStep(f) /\ v % NumVal(SubSeq(f, 3, Len(f))) = 0
    \/ \E k \in RangeAt(f) :
          /\ NumVal(SubSeq(f, 1, k - 1)) <= v
          /\ v <= NumVal(SubSeq(f, k + 1, Len(f)))

\* C29: a call with an expression of other than 5 fields returns false; a
\* call with 5 fields, each "*", n, a-b or */s (s > 0), returns true exactly
\* when every field matches its component of t as documented.  "*/5 * * * *"
\* returns true exactly at minutes 0, 5, ..., 55 and "0 3 * * *" exactly at
\* minute 0 of hour 3.
C29_MatchCron ==
    cout # <<>> =>
        /\ Len(cexpr) # 5 => cout[1] = FALSE
        /\ (Len(cexpr) = 5 /\ \A i \in 1..5 : WellFormed(cexpr[i])) =>
              (cout[1] <=> \A i \in 1..5 : Documented(cexpr[i], Component(ctime, i)))
        /\ cexpr = EveryFive =>
              (cout[1] <=> ctime.minute \in {5 * k : k \in 0..11})
        /\ cexpr = ThreeAm =>
              (cout[1] <=> ctime.minute = 0 /\ ctime.hour = 3)

\* A call that returned true for an expression with a number, a range and a
\* step among its five fields.
C29_Witness ==
    /\ cout = <<TRUE>>
    /\ Len(cexpr) = 5
    /\ \E i, j \in 1..5 : IsNumber(cexpr[i]) /\ RangeAt(cexpr[j]) # {}

\* "*/5" in the minute field matched minute 55.
C29_WitnessStep ==
    /\ cout = <<TRUE>>
    /\ cexpr = EveryFive /\ ctime.minute = 55

(***************************************************************************)
(*                            Specifications                               *)
(***************************************************************************)

QueueIdle == InitQueue /\ maxRetry = 1
PoolIdle == InitPool /\ poolSize = 1

SchedIdle == InitSched /\ \A e \in Entries : cfg[e] = [interval |-> 1,
                 cron |-> <<>>, noOverlap |-> FALSE, before |-> FALSE, after |-> FALSE]

RedisIdle == InitRedis /\ nProm = 1

\* Each specification starts one subsystem in its constructed state and
\* holds the others in a fixed idle state.
StartQueue == InitQueue /\ PoolIdle /\ SchedIdle /\ InitLog /\ RedisIdle /\ CronIdle
StartPool == InitPool /\ QueueIdle /\ SchedIdle /\ InitLog /\ RedisIdle /\ CronIdle
StartSched == InitSched /\ QueueIdle /\ PoolIdle /\ InitLog /\ RedisIdle /\ CronIdle
StartLog == InitLog /\ QueueIdle /\ PoolIdle /\ SchedIdle /\ RedisIdle /\ CronIdle
StartRedis == InitRedis /\ QueueIdle /\ PoolIdle /\ SchedIdle /\ InitLog /\ CronIdle

SpecQueue == StartQueue /\ [][NextQueue]_vars
SpecPool == StartPool /\ [][NextPool]_vars
\* The pool under fair scheduling: the Go scheduler runs every runnable
\* worker, and a task body that is called returns or panics.
StartPoolFair ==
    /\ PoolIdle /\ QueueIdle /\ SchedIdle /\ InitLog /\ RedisIdle /\ CronIdle

SpecPoolFair ==
    /\ StartPoolFair /\ [][NextPool]_vars
    /\ \A w \in 1..MaxPoolSize : WF_vars(PoolWorkerStep(w))

SpecSched == StartSched /\ [][NextSched]_vars
SpecLog == StartLog /\ [][NextLog]_vars

\* The queue with SetDriver, a channel buffer of 1..memoryQueueSize.
StartSwap ==
    /\ InitManager /\ chCap \in 1..memoryQueueSize
    /\ PoolIdle /\ SchedIdle /\ InitLog /\ RedisIdle /\ CronIdle

SpecSwap == StartSwap /\ [][NextSwap]_vars

\* Workers on the default driver with max_retry = 1, under fair scheduling:
\* the Go scheduler runs every runnable goroutine and time passes; a handler
\* that is called returns (with nil, an error or a panic).
StartCancel == QueueIdle /\ PoolIdle /\ SchedIdle /\ InitLog /\ RedisIdle /\ CronIdle

SpecCancel ==
    /\ StartCancel /\ [][NextSwap]_vars
    /\ \A w \in Workers : WF_vars(WorkerStep(w))
    /\ WF_vars(Second)

\* Workers on the default driver, max_retry = 1 at the start and SetMaxRetry
\* called by other goroutines.
StartRetry == QueueIdle /\ PoolIdle /\ SchedIdle /\ InitLog /\ RedisIdle /\ CronIdle

SpecRetry == StartRetry /\ [][NextRetry]_vars

\* The open sink under fair scheduling: the drainer goroutine runs, its
\* ticker ticks, and InsertMany returns (it has a 5-second timeout).
SpecLogOpen ==
    /\ StartLog /\ [][NextLogOpen]_vars
    /\ WF_vars(DrainRecv \/ DrainTick \/ InsertMany)

SpecRedis == StartRedis /\ [][NextRedis]_vars

StartCron ==
    /\ QueueIdle /\ PoolIdle /\ SchedIdle /\ InitLog /\ RedisIdle
    /\ InitCron

SpecCron == StartCron /\ [][NextCron]_vars
====
